---- MODULE Spec2Model ----
(***************************************************************************)
(* Realtime conversation synchronisation engine of zenlit_native_bolt.     *)
(*                                                                         *)
(*   app/messages/[id].tsx      message store reducer, coalescer, history  *)
(*                              loads, optimistic send and retry,          *)
(*                              proximity checks (Nearby / Distant)        *)
(*   app/messages/index.tsx     thread list reducer and screen: loads,     *)
(*     (unnamed/part_014)       message events, merges, partner locations  *)
(*   src/utils/realtime.ts      RealtimeManager (channel lifecycle)        *)
(*   src/utils/chatRealtimeSetup.ts (unnamed/part_011)  setupChatRealtime  *)
(*                                                                         *)
(* Timestamps are integers (the reducer compares new Date(x).getTime()).   *)
(* Ids are naturals; generateUUID is a fresh-id counter.                   *)
(***************************************************************************)
EXTENDS Integers, Sequences, FiniteSets, TLC

\* ---------------------------------------------------------------- bounds
\* page size of a history fetch (BATCH_SIZE is 50 at app/messages/[id].tsx:39;
\* the model scales it down so that a page boundary is reached)
BatchSize == 2
\* number of messages the user authors
MaxSends == 1
\* number of retries the user taps
MaxRetries == 1
\* number of messages the other participant sends while the screen is open
MaxOther == 1
\* number of delivered/read status changes made by the server
MaxStatus == 1
\* the clock runs from 1 to MaxTime
MaxTime == 2
\* closures the coalescer queue may hold before its timer fires (while the
\* log is kept, MaxEnq bounds the queue instead)
MaxQueue == 1
\* older pages the persistence service answers (a fetch that fails is not
\* counted: it leaves the screen as it was before the fetch)
MaxOlder == 1
\* location updates of a participant while the screen is open
MaxLoc == 2
\* isUserNearby calls in flight at once
MaxChecks == 2
\* closures queued while the coalescer's log is kept
MaxEnq == 3
\* events of the user's other conversations carried by the private channel
MaxForeign == 2
\* scroll events and blur / focus cycles of the conversation view
MaxViewInputs == 4
\* changes of the typing state of the two participants
MaxTyping == 2

\* ---------------------------------------------------------------- state
VARIABLES
  state,          \* useReducer state: [messages, hasMore, isFetchingMore]
  currentUserId,  \* TRUE once setCurrentUserId(user.id) has run
  loading,        \* the blocking "Loading conversation..." flag
  loads,          \* the runs of the loadChat effect
  older,          \* the in-flight loadOlder call
  eventQueue,     \* eventQueueRef.current
  debounceTimer,  \* TRUE while the 30ms timer of queueEvent is armed
  sends,          \* in-flight sendMessage calls of handleSend / handleRetry
  server,         \* rows of the messages table of this conversation
  events,         \* realtime events the transport may (re)deliver
  nextId,         \* generateUUID / server id source
  clock,          \* wall clock
  hist,           \* counters that bound the run and history used by the properties
  pf,             \* inputs and results of the reducer when it is exercised on its own
  mgr,            \* RealtimeManager fields: channel, isSubscribed, retryCount, retryTimeout
  chans,          \* the transport's channels created by the manager
  timers,         \* delays of the pending setTimeout callbacks, in the order scheduled
  opens,          \* subscribeToConversation calls suspended at await setAuth()
  unsubs,         \* unsubscribe calls suspended at await channel.untrack()
  mh,             \* owner position and history used by the properties
  otherUserId,    \* the route parameter: the conversation the screen shows
  nearby,         \* what the proximity service answers at this moment
  isAnonymous,    \* useState(false); set by checkAnonymity
  checks,         \* isUserNearby calls of checkAnonymity in flight, oldest first
  ph,             \* log of the coalescer used by the properties
  rd,             \* read receipts: isAtBottomRef, hasMarkedReadRef, calls made
  ty,             \* typing: broadcasts in flight, the peer's channel, both indicators
  tstate,         \* thread list, useReducer state: [threads, loading, initialLoadComplete]
  tl,             \* thread list screen: refs, closures and calls in flight
  tsrv,           \* the conversations of the user as the backend has them
  shown           \* the screens whose events a run follows

mgrVars == <<mgr, chans, timers, opens, unsubs, mh>>

proxVars == <<otherUserId, nearby, isAnonymous, checks, ph>>

listVars == <<tstate, tl, tsrv, shown>>

storeVars == <<state, currentUserId, loading, loads, older, eventQueue,
               debounceTimer, sends, server, events, nextId, clock, hist>>

\* ------------------------------------------------------- generic helpers
RECURSIVE SeqOfSet(_, _)
\* the rows of a set as a sequence, newest first (created_at, then id)
SeqOfSet(S, acc) ==
  IF S = {} THEN acc
  ELSE LET m == CHOOSE x \in S : \A y \in S :
                   \/ x.created_at > y.created_at
                   \/ (x.created_at = y.created_at /\ x.id >= y.id)
       IN SeqOfSet(S \ {m}, Append(acc, m))

Take(s, n) == SubSeq(s, 1, IF Len(s) < n THEN Len(s) ELSE n)

Ids(msgs) == {msgs[i].id : i \in 1..Len(msgs)}

RemoveAt(ts, i) == SubSeq(ts, 1, i - 1) \o SubSeq(ts, i + 1, Len(ts))

\* ------------------------------------------------------ message reducer
RECURSIVE InsertStable(_, _)
\* place m behind every element that does not compare greater (stable)
InsertStable(sorted, m) ==
  IF sorted = <<>> THEN <<m>>
  ELSE IF sorted[Len(sorted)].sentAt <= m.sentAt THEN Append(sorted, m)
  ELSE Append(InsertStable(SubSeq(sorted, 1, Len(sorted) - 1), m),
              sorted[Len(sorted)])

RECURSIVE sortMessagesAsc(_)
\* Array.prototype.sort with (a, b) => time(a.sentAt) - time(b.sentAt)
sortMessagesAsc(list) ==
  IF list = <<>> THEN <<>>
  ELSE InsertStable(sortMessagesAsc(SubSeq(list, 1, Len(list) - 1)),
                    list[Len(list)])

\* findIndex: first index whose entry has the id, 0 when there is none
FindIndex(msgs, id) ==
  IF \E i \in 1..Len(msgs) : msgs[i].id = id
  THEN CHOOSE i \in 1..Len(msgs) :
         msgs[i].id = id /\ \A j \in 1..(i - 1) : msgs[j].id # id
  ELSE 0

SetMessages(messages) == sortMessagesAsc(messages)

\* mutant: the page is merged without the filter on existing ids
PrependMessages_NoFilter(messages, page) ==
  sortMessagesAsc(page \o messages)

PrependMessages(messages, page) ==
  LET existingIds == Ids(messages)
      newMessages == SelectSeq(page, LAMBDA m : m.id \notin existingIds)
  IN sortMessagesAsc(newMessages \o messages)

\* mutant: the replaced entry is kept and the message appended as well
UpsertMessage_AlwaysAppend(messages, message) ==
  sortMessagesAsc(Append(messages, message))

\* mutant: findIndex result tested with > 0 instead of >= 0 (first slot missed)
UpsertMessage_IndexOffByOne(messages, message) ==
  LET existingIndex == FindIndex(messages, message.id)
  IN sortMessagesAsc(IF existingIndex > 1
                     THEN [messages EXCEPT ![existingIndex] = message]
                     ELSE Append(messages, message))

\* mutant: the store is not sorted after the upsert
UpsertMessage_NoSort(messages, message) ==
  LET existingIndex == FindIndex(messages, message.id)
  IN IF existingIndex > 0
     THEN [messages EXCEPT ![existingIndex] = message]
     ELSE Append(messages, message)

UpsertMessage(messages, message) ==
  LET existingIndex == FindIndex(messages, message.id)
  IN sortMessagesAsc(IF existingIndex > 0
                     THEN [messages EXCEPT ![existingIndex] = message]
                     ELSE Append(messages, message))

\* { ...old, ...updates }; no sort
UpdateMessage(messages, id, updates) ==
  LET index == FindIndex(messages, id)
  IN IF index = 0 THEN messages
     ELSE [messages EXCEPT ![index] =
             [f \in DOMAIN @ |-> IF f \in DOMAIN updates THEN updates[f] ELSE @[f]]]

messagesReducer(st, action) ==
  CASE action.type = "SET_MESSAGES" ->
         [st EXCEPT !.messages = SetMessages(action.messages),
                    !.hasMore = action.hasMore]
    [] action.type = "PREPEND_MESSAGES" ->
         [st EXCEPT !.messages = PrependMessages(st.messages, action.messages),
                    !.hasMore = action.hasMore]
    [] action.type = "UPSERT_MESSAGE" ->
         [st EXCEPT !.messages = UpsertMessage(st.messages, action.message)]
    [] action.type = "UPDATE_MESSAGE" ->
         [st EXCEPT !.messages = UpdateMessage(st.messages, action.id, action.updates)]
    [] action.type = "SET_FETCHING_MORE" ->
         [st EXCEPT !.isFetchingMore = action.isFetchingMore]
    [] OTHER -> st

\* mapServerMessage; cu is whether the closure was built with currentUserId set
mapServerMessage(msg, cu) ==
  IF ~cu
  THEN [id |-> msg.id, text |-> msg.text, sentAt |-> msg.created_at,
        fromMe |-> FALSE, status |-> "sent"]
  ELSE LET fromMe == (msg.sender = "me")
           status == IF fromMe
                     THEN (IF msg.st = "read" THEN "read"
                           ELSE IF msg.st = "delivered" THEN "delivered"
                           ELSE "sent")
                     ELSE "sent"
       IN [id |-> msg.id, text |-> msg.text, sentAt |-> msg.created_at,
           fromMe |-> fromMe, status |-> status]

MapAll(rows, cu) == [i \in 1..Len(rows) |-> mapServerMessage(rows[i], cu)]

\* ------------------------------------------------ persistence service
\* the rows of the conversation with a second participant
HistoryB ==
  { [id |-> 21, text |-> 0, created_at |-> 0, sender |-> "other", st |-> "none"],
    [id |-> 22, text |-> 0, created_at |-> 1, sender |-> "me", st |-> "read"] }

\* getMessagesBetweenUsers(otherUserId, limit, before?): the newest `limit`
\* rows (older than `before` when given; -1 stands for "not given")
getMessagesBetweenUsers(other, limit, before) ==
  LET table == IF other = "A" THEN server ELSE HistoryB
      rows == IF before = -1 THEN table
              ELSE {r \in table : r.created_at < before}
  IN Take(SeqOfSet(rows, <<>>), limit)

\* ------------------------------------------------------------- initial
History ==
  { [id |-> 1, text |-> 0, created_at |-> 0, sender |-> "other", st |-> "none"],
    [id |-> 2, text |-> 0, created_at |-> 0, sender |-> "me", st |-> "read"],
    [id |-> 3, text |-> 0, created_at |-> 1, sender |-> "other", st |-> "none"] }

NoOlder == [pc |-> "idle", other |-> "A", before |-> -1, page |-> <<>>, error |-> FALSE]

NoLoad == [pc |-> "idle", other |-> "A", cu |-> FALSE, page |-> <<>>, error |-> FALSE]

\* marked: the messages of the other participant a markThreadRead call has
\* covered; received: those whose insert closure has run; inputs: scroll
\* events and focus changes so far
InitRead == [isAtBottom |-> TRUE, hasMarkedRead |-> FALSE, lastReadMessageId |-> 0,
             marked |-> {}, received |-> {}, inputs |-> 0]

\* air: typing broadcasts the transport has not delivered yet; peer: the
\* channel the manager of the other participant holds for this conversation;
\* view: the typing indicator and its 3 s timer in the view of each participant
InitTyping == [air |-> {}, n |-> 0, peer |-> "none",
               view |-> [u \in {"me", "A"} |-> [isTyping |-> FALSE, timer |-> FALSE]]]

InitStore ==
  /\ state = [messages |-> <<>>, hasMore |-> TRUE, isFetchingMore |-> FALSE]
  /\ currentUserId = FALSE
  /\ loading = TRUE
  /\ loads = [r \in 1..3 |-> IF r = 1 THEN [NoLoad EXCEPT !.pc = "getUser"] ELSE NoLoad]
  /\ older = NoOlder
  /\ eventQueue = <<>>
  /\ debounceTimer = FALSE
  /\ sends = {}
  /\ server = History
  /\ events = {}
  /\ nextId = 4
  /\ clock = 1
  /\ hist = [sends |-> 0, retries |-> 0, other |-> 0, status |-> 0, older |-> 0,
             sentIds |-> {}, retried |-> {}]
  /\ rd = InitRead
  /\ ty = InitTyping

\* on: the log is kept; enq: closures queued so far; ran: the closures run so
\* far, in the order they ran; locs: location updates so far; olderFailed: an
\* older-page fetch has failed; foreign: events of other conversations the
\* channel has carried so far
NoLog == [on |-> FALSE, enq |-> 0, ran |-> <<>>, locs |-> 0, olderFailed |-> FALSE,
          foreign |-> 0]

InitProx ==
  /\ otherUserId = "A"
  /\ nearby = TRUE
  /\ isAnonymous = FALSE
  /\ checks = <<>>
  /\ ph = NoLog

\* ------------------------------------------------------------ the clock
Tick ==
  /\ clock < MaxTime
  /\ clock' = clock + 1
  /\ UNCHANGED <<state, currentUserId, loading, loads, older, eventQueue,
                 debounceTimer, sends, server, events, nextId, hist>>
  /\ UNCHANGED <<pf, rd, ty, listVars, mgrVars, proxVars>>

\* ------------------------------------------------- loadChat (initial load)
\* supabase.auth.getUser() resolves: setCurrentUserId changes mapServerMessage,
\* so the effect runs loadChat a second time while this run goes on
LoadChatGetUser(r) ==
  /\ loads[r].pc = "getUser"
  /\ IF ~currentUserId
     THEN /\ currentUserId' = TRUE
          /\ loads' = [loads EXCEPT ![r].pc = "fetch",
                                    ![2] = [NoLoad EXCEPT !.pc = "getUser", !.cu = TRUE]]
          /\ loading' = TRUE
     ELSE /\ loads' = [loads EXCEPT ![r].pc = "fetch"]
          /\ UNCHANGED <<currentUserId, loading>>
  /\ UNCHANGED <<state, older, eventQueue, debounceTimer, sends, server, events,
                 nextId, clock, hist>>
  /\ UNCHANGED <<pf, rd, ty, listVars, mgrVars, proxVars>>

\* the persistence service answers the page request (or fails)
LoadChatFetch(r) ==
  /\ loads[r].pc = "fetch"
  /\ \E err \in BOOLEAN :
       loads' = [loads EXCEPT ![r].pc = "apply",
                              ![r].error = err,
                              ![r].page = IF err THEN <<>>
                                          ELSE getMessagesBetweenUsers(loads[r].other,
                                                                       BatchSize, -1)]
  /\ UNCHANGED <<state, currentUserId, loading, older, eventQueue, debounceTimer,
                 sends, server, events, nextId, clock, hist>>
  /\ UNCHANGED <<pf, rd, ty, listVars, mgrVars, proxVars>>

\* the awaited fetch resumes: SET_MESSAGES, then checkAnonymity() is awaited
LoadChatApply(r) ==
  /\ loads[r].pc = "apply"
  /\ state' = IF loads[r].error THEN state
              ELSE messagesReducer(state,
                     [type |-> "SET_MESSAGES",
                      messages |-> sortMessagesAsc(MapAll(loads[r].page, loads[r].cu)),
                      hasMore |-> (Len(loads[r].page) = BatchSize)])
  /\ loads' = [loads EXCEPT ![r] = [NoLoad EXCEPT !.pc = "nearby", !.other = loads[r].other]]
  /\ UNCHANGED <<currentUserId, loading, older, eventQueue, debounceTimer, sends,
                 server, events, nextId, clock, hist>>
  /\ UNCHANGED <<pf, rd, ty, listVars, mgrVars, proxVars>>

\* isUserNearby answers the awaited checkAnonymity: setIsAnonymous(!isNearby),
\* then setLoading(false)
LoadChatDone(r) ==
  /\ loads[r].pc = "nearby"
  /\ isAnonymous' = ~nearby
  /\ loading' = FALSE
  /\ loads' = [loads EXCEPT ![r] = [NoLoad EXCEPT !.pc = "done"]]
  /\ UNCHANGED <<state, currentUserId, older, eventQueue, debounceTimer, sends,
                 server, events, nextId, clock, hist>>
  /\ UNCHANGED <<pf, rd, ty, listVars, mgrVars, otherUserId, nearby, checks, ph>>

\* the route parameter changes while the screen stays mounted: the loadChat
\* effect (deps [otherUserId, mapServerMessage, checkAnonymity]) runs again for
\* the new conversation. The reducer state is kept and no run is cancelled
SwitchConversation ==
  /\ otherUserId = "A"
  /\ currentUserId
  /\ loads[3].pc = "idle"
  /\ otherUserId' = "B"
  /\ loading' = TRUE
  /\ loads' = [loads EXCEPT ![3] = [NoLoad EXCEPT !.pc = "getUser", !.other = "B",
                                                  !.cu = TRUE]]
  /\ UNCHANGED <<state, currentUserId, older, eventQueue, debounceTimer, sends,
                 server, events, nextId, clock, hist>>
  /\ UNCHANGED <<pf, rd, ty, listVars, mgrVars, nearby, isAnonymous, checks, ph>>

\* ------------------------------------------------------------ loadOlder
\* the early return of loadOlder, negated
CanLoadOlder ==
  ~state.isFetchingMore /\ state.hasMore /\ state.messages # <<>>

\* the list is scrolled to its top: loadOlder up to its await
LoadOlder ==
  /\ ~loading
  /\ hist.older < MaxOlder
  /\ older.pc = "idle"
  /\ CanLoadOlder
  /\ state' = messagesReducer(state, [type |-> "SET_FETCHING_MORE", isFetchingMore |-> TRUE])
  /\ older' = [NoOlder EXCEPT !.pc = "issued", !.other = otherUserId,
                              !.before = state.messages[1].sentAt]
  /\ UNCHANGED <<currentUserId, loading, loads, eventQueue, debounceTimer, sends,
                 server, events, nextId, clock, hist>>
  /\ UNCHANGED <<pf, rd, ty, listVars, mgrVars, proxVars>>

\* the persistence service answers the older page (or fails)
OlderFetch ==
  /\ older.pc = "issued"
  /\ \E err \in BOOLEAN :
       /\ older' = [older EXCEPT !.pc = "fetched", !.error = err,
                                 !.page = IF err THEN <<>>
                                          ELSE getMessagesBetweenUsers(older.other, BatchSize,
                                                                       older.before)]
       /\ hist' = IF err THEN hist ELSE [hist EXCEPT !.older = @ + 1]
  /\ UNCHANGED <<state, currentUserId, loading, loads, eventQueue, debounceTimer,
                 sends, server, events, nextId, clock>>
  /\ UNCHANGED <<pf, rd, ty, listVars, mgrVars, proxVars>>

\* mutant: a failed fetch ends the pagination
OlderApply_ErrorEndsPaging ==
  /\ older.pc = "fetched"
  /\ LET s1 == IF ~older.error /\ Len(older.page) > 0
               THEN messagesReducer(state,
                      [type |-> "PREPEND_MESSAGES",
                       messages |-> sortMessagesAsc(MapAll(older.page, TRUE)),
                       hasMore |-> (Len(older.page) = BatchSize)])
               ELSE [state EXCEPT !.hasMore = ~older.error]
     IN state' = messagesReducer(s1, [type |-> "SET_FETCHING_MORE", isFetchingMore |-> FALSE])
  /\ older' = NoOlder
  /\ ph' = [ph EXCEPT !.olderFailed = IF ph.on /\ older.error THEN TRUE ELSE @]
  /\ UNCHANGED <<currentUserId, loading, loads, eventQueue, debounceTimer, sends,
                 server, events, nextId, clock, hist>>
  /\ UNCHANGED <<pf, rd, ty, listVars, mgrVars, otherUserId, nearby, isAnonymous, checks>>

\* the awaited fetch resumes: PREPEND_MESSAGES unless it failed or the page is
\* empty, then SET_FETCHING_MORE false
OlderApply ==
  /\ older.pc = "fetched"
  /\ LET s1 == IF ~older.error /\ Len(older.page) > 0
               THEN messagesReducer(state,
                      [type |-> "PREPEND_MESSAGES",
                       messages |-> sortMessagesAsc(MapAll(older.page, TRUE)),
                       hasMore |-> (Len(older.page) = BatchSize)])
               ELSE state
     IN state' = messagesReducer(s1, [type |-> "SET_FETCHING_MORE", isFetchingMore |-> FALSE])
  /\ older' = NoOlder
  /\ ph' = [ph EXCEPT !.olderFailed = IF ph.on /\ older.error THEN TRUE ELSE @]
  /\ UNCHANGED <<currentUserId, loading, loads, eventQueue, debounceTimer, sends,
                 server, events, nextId, clock, hist>>
  /\ UNCHANGED <<pf, rd, ty, listVars, mgrVars, otherUserId, nearby, isAnonymous, checks>>

\* ----------------------------------------------- handleSend / handleRetry
\* the Composer calls onSend only when it is not disabled (disabled={isAnonymous})
HandleSend ==
  /\ ~loading
  /\ ~isAnonymous
  /\ hist.sends < MaxSends
  /\ LET messageId == nextId
         body == hist.sends + 1
         optimisticMessage == [id |-> messageId, text |-> body, sentAt |-> clock,
                               fromMe |-> TRUE, status |-> "pending"]
     IN /\ state' = messagesReducer(state, [type |-> "UPSERT_MESSAGE",
                                            message |-> optimisticMessage])
        /\ sends' = sends \cup {[op |-> "send", id |-> messageId, entry |-> messageId,
                                  text |-> body, stage |-> "submitted", created_at |-> 0]}
        /\ hist' = [hist EXCEPT !.sends = @ + 1, !.sentIds = @ \cup {messageId}]
  /\ nextId' = nextId + 1
  /\ UNCHANGED <<currentUserId, loading, loads, older, eventQueue, debounceTimer,
                 server, events, clock>>
  /\ UNCHANGED <<pf, rd, ty, listVars, mgrVars, proxVars>>

HandleRetry(i) ==
  /\ ~loading
  /\ hist.retries < MaxRetries
  /\ i \in 1..Len(state.messages)
  /\ state.messages[i].status = "failed"
  /\ LET message == state.messages[i]
         retryId == nextId
     IN /\ state' = messagesReducer(state,
                      [type |-> "UPDATE_MESSAGE", id |-> message.id,
                       updates |-> [status |-> "pending", sentAt |-> clock]])
        /\ sends' = sends \cup {[op |-> "retry", id |-> retryId, entry |-> message.id,
                                  text |-> message.text, stage |-> "submitted",
                                  created_at |-> 0]}
  /\ nextId' = nextId + 1
  /\ hist' = [hist EXCEPT !.retries = @ + 1]
  /\ UNCHANGED <<currentUserId, loading, loads, older, eventQueue, debounceTimer,
                 server, events, clock>>
  /\ UNCHANGED <<pf, rd, ty, listVars, mgrVars, proxVars>>

RowOf(s) == [id |-> s.id, text |-> s.text, created_at |-> s.created_at,
             sender |-> "me", st |-> "none"]

\* sendMessage reaches the backend: the row is inserted under the client's id
\* and the insert trigger broadcasts it
ServerInsert(s) ==
  /\ s \in sends /\ s.stage = "submitted"
  /\ LET p == [s EXCEPT !.stage = "persisted", !.created_at = clock]
     IN /\ sends' = (sends \ {s}) \cup {p}
        /\ server' = server \cup {RowOf(p)}
        /\ events' = events \cup {[type |-> "INSERT", row |-> RowOf(p)]}
  /\ UNCHANGED <<state, currentUserId, loading, loads, older, eventQueue,
                 debounceTimer, nextId, clock, hist>>
  /\ UNCHANGED <<pf, rd, ty, listVars, mgrVars, proxVars>>

\* sendMessage resolves with the persisted record
SendResolved(s) ==
  /\ s \in sends /\ s.stage = "persisted"
  /\ state' = messagesReducer(state, [type |-> "UPSERT_MESSAGE",
                                      message |-> mapServerMessage(RowOf(s), TRUE)])
  /\ sends' = sends \ {s}
  /\ hist' = IF s.op = "retry"
             THEN [hist EXCEPT !.retried = @ \cup {[entry |-> s.entry, id |-> s.id,
                                                     text |-> s.text]}]
             ELSE hist
  /\ UNCHANGED <<currentUserId, loading, loads, older, eventQueue, debounceTimer,
                 server, events, nextId, clock>>
  /\ UNCHANGED <<pf, rd, ty, listVars, mgrVars, proxVars>>

\* sendMessage resolves with an error or throws: the catch block
SendFailed(s) ==
  /\ s \in sends /\ s.stage = "submitted"
  /\ state' = messagesReducer(state, [type |-> "UPDATE_MESSAGE", id |-> s.entry,
                                      updates |-> [status |-> "failed"]])
  /\ sends' = sends \ {s}
  /\ UNCHANGED <<currentUserId, loading, loads, older, eventQueue, debounceTimer,
                 server, events, nextId, clock, hist>>
  /\ UNCHANGED <<pf, rd, ty, listVars, mgrVars, proxVars>>

\* ------------------------------------------------- the other side, server
OtherSends ==
  /\ hist.other < MaxOther
  /\ LET row == [id |-> nextId, text |-> 0, created_at |-> clock,
                 sender |-> "other", st |-> "none"]
     IN /\ server' = server \cup {row}
        /\ events' = events \cup {[type |-> "INSERT", row |-> row]}
  /\ nextId' = nextId + 1
  /\ hist' = [hist EXCEPT !.other = @ + 1]
  /\ UNCHANGED <<state, currentUserId, loading, loads, older, eventQueue,
                 debounceTimer, sends, clock>>
  /\ UNCHANGED <<pf, rd, ty, listVars, mgrVars, proxVars>>

\* the receiver's client marks a row delivered, then read
ServerStatus(row) ==
  /\ hist.status < MaxStatus
  /\ row \in server /\ row.sender = "me" /\ row.st # "read"
  /\ LET new == [row EXCEPT !.st = IF row.st = "none" THEN "delivered" ELSE "read"]
     IN /\ server' = (server \ {row}) \cup {new}
        /\ events' = events \cup {[type |-> "UPDATE", row |-> new]}
  /\ hist' = [hist EXCEPT !.status = @ + 1]
  /\ UNCHANGED <<state, currentUserId, loading, loads, older, eventQueue,
                 debounceTimer, sends, nextId, clock>>
  /\ UNCHANGED <<pf, rd, ty, listVars, mgrVars, proxVars>>

\* --------------------------------------------------- coalescer (30 ms)
\* queueEvent(fn): push, clearTimeout, setTimeout(processBatchedEvents, 30).
\* Gives <<eventQueue, debounceTimer, ph>>; n numbers the closure in the log
queueEvent(q, fn, log) ==
  <<Append(q, [fn |-> fn, n |-> IF log.on THEN log.enq + 1 ELSE 0]), TRUE,
    [log EXCEPT !.enq = IF log.on THEN @ + 1 ELSE @]>>

\* onMessageInsert / onMessageUpdate: queueEvent(closure)
RealtimeDeliver(e) ==
  /\ currentUserId
  /\ e \in events
  /\ IF ph.on THEN ph.enq < MaxEnq ELSE Len(eventQueue) < MaxQueue
  /\ LET r == queueEvent(eventQueue, e, ph)
     IN /\ eventQueue' = r[1]
        /\ debounceTimer' = r[2]
        /\ ph' = r[3]
  /\ UNCHANGED <<state, currentUserId, loading, loads, older, sends, server,
                 events, nextId, clock, hist>>
  /\ UNCHANGED <<pf, rd, ty, listVars, mgrVars, otherUserId, nearby, isAnonymous, checks>>

\* a row of the model as the payload the channel carries: sender_id and
\* receiver_id name the two participants ("me" is the user, "A" the other
\* participant of the conversation the server variable holds)
Payload(row) ==
  [id |-> row.id, text |-> row.text, created_at |-> row.created_at, st |-> row.st,
   sender_id |-> IF row.sender = "me" THEN "me" ELSE "A",
   receiver_id |-> IF row.sender = "me" THEN "A" ELSE "me"]

\* the payload as the row the handlers map (fromMe is sender_id === currentUserId)
RowOfPayload(msg) ==
  [id |-> msg.id, text |-> msg.text, created_at |-> msg.created_at,
   sender |-> IF msg.sender_id = "me" THEN "me" ELSE "other", st |-> msg.st]

\* messages of the user's conversation with a third participant, and one the
\* user is no party of
ForeignPayloads ==
  { [id |-> 31, text |-> 0, created_at |-> 1, st |-> "none",
     sender_id |-> "C", receiver_id |-> "me"],
    [id |-> 32, text |-> 0, created_at |-> 1, st |-> "delivered",
     sender_id |-> "me", receiver_id |-> "C"],
    [id |-> 33, text |-> 0, created_at |-> 1, st |-> "none",
     sender_id |-> "A", receiver_id |-> "C"] }

\* mutant: the filter looks at the sender only
ConversationFilter_SenderOnly(msg, cu, other) ==
  msg.sender_id = other \/ msg.sender_id = cu

\* the condition of the broadcast INSERT and postgres_changes UPDATE listeners
ConversationFilter(msg, cu, other) ==
  \/ msg.sender_id = other /\ msg.receiver_id = cu
  \/ msg.sender_id = cu /\ msg.receiver_id = other

\* the channel chat:{currentUserId} carries an event: the listener built by
\* subscribeToConversation for otherUserId calls onInsert / onUpdate when the
\* message passes its condition, and the handler queues the closure
ChannelEvent(type, msg) ==
  /\ currentUserId
  /\ \/ \E e \in events : e.type = type /\ msg = Payload(e.row)
     \/ msg \in ForeignPayloads /\ ph.foreign < MaxForeign
  /\ IF ph.on THEN ph.enq < MaxEnq ELSE Len(eventQueue) < MaxQueue
  /\ LET r == IF ConversationFilter(msg, "me", otherUserId)
              THEN queueEvent(eventQueue, [type |-> type, row |-> RowOfPayload(msg)], ph)
              ELSE <<eventQueue, debounceTimer, ph>>
     IN /\ eventQueue' = r[1]
        /\ debounceTimer' = r[2]
        /\ ph' = [r[3] EXCEPT !.foreign = IF msg \in ForeignPayloads THEN @ + 1 ELSE @]
  /\ UNCHANGED <<state, currentUserId, loading, loads, older, sends, server,
                 events, nextId, clock, hist>>
  /\ UNCHANGED <<pf, rd, ty, listVars, mgrVars, otherUserId, nearby, isAnonymous, checks>>

\* a locations row of a participant is updated; the location subscription
\* calls onLocationUpdate: queueEvent(() => checkAnonymity())
LocationUpdate(b) ==
  /\ currentUserId
  /\ ph.locs < MaxLoc
  /\ Len(checks) + Cardinality({i \in 1..Len(eventQueue) :
                                  eventQueue[i].fn.type = "LOCATION"}) < MaxChecks
  /\ IF ph.on THEN ph.enq < MaxEnq ELSE Len(eventQueue) < MaxQueue
  /\ nearby' = b
  /\ LET r == queueEvent(eventQueue, [type |-> "LOCATION"], ph)
     IN /\ eventQueue' = r[1]
        /\ debounceTimer' = r[2]
        /\ ph' = [r[3] EXCEPT !.locs = @ + 1]
  /\ UNCHANGED <<state, currentUserId, loading, loads, older, sends, server,
                 events, nextId, clock, hist>>
  /\ UNCHANGED <<pf, rd, ty, listVars, mgrVars, otherUserId, isAnonymous, checks>>

\* markThreadRead(otherUserId): the messages of the other participant that
\* the conversation holds are marked read
markThreadRead == {r.id : r \in {x \in server : x.sender = "other"}}

\* the second half of the onMessageInsert closure: a message of the other
\* participant is marked read when the view is at the bottom
InsertMarksRead(r, row) ==
  IF row.sender = "other"
  THEN LET got == [r EXCEPT !.received = @ \cup {row.id}]
       IN IF r.isAtBottom
          THEN [got EXCEPT !.marked = @ \cup markThreadRead,
                           !.lastReadMessageId = row.id,
                           !.hasMarkedRead = TRUE]
          ELSE got
  ELSE r

\* one queued closure runs: the message closures dispatch UPSERT_MESSAGE (the
\* insert closure then marks the thread read), the location closure calls
\* checkAnonymity (isUserNearby is then in flight)
RunClosure(acc, c) ==
  LET a == [acc EXCEPT !.ran = IF c.n > 0 THEN Append(@, c) ELSE @]
  IN IF c.fn.type = "LOCATION"
     THEN [a EXCEPT !.checks = Append(@, "asked")]
     ELSE [a EXCEPT !.st = messagesReducer(@, [type |-> "UPSERT_MESSAGE",
                              message |-> mapServerMessage(c.fn.row, TRUE)]),
                    !.rd = IF c.fn.type = "INSERT" THEN InsertMarksRead(@, c.fn.row)
                           ELSE @]

RECURSIVE RunClosures_Reversed(_, _)
\* mutant: the batch runs newest first
RunClosures_Reversed(acc, q) ==
  IF q = <<>> THEN acc
  ELSE RunClosures_Reversed(RunClosure(acc, q[Len(q)]), SubSeq(q, 1, Len(q) - 1))

\* mutant: only the latest closure of the batch runs
RunClosures_LatestOnly(acc, q) ==
  IF q = <<>> THEN acc ELSE RunClosure(acc, q[Len(q)])

RECURSIVE RunClosures(_, _)
\* events.forEach((fn) => fn()); acc is [st, checks, ran, rd]
RunClosures(acc, q) ==
  IF q = <<>> THEN acc
  ELSE RunClosures(RunClosure(acc, Head(q)), Tail(q))

processBatchedEvents ==
  /\ debounceTimer
  /\ LET r == RunClosures([st |-> state, checks |-> checks, ran |-> ph.ran,
                           rd |-> rd], eventQueue)
     IN /\ state' = r.st
        /\ checks' = r.checks
        /\ ph' = [ph EXCEPT !.ran = r.ran]
        /\ rd' = r.rd
  /\ eventQueue' = <<>>
  /\ debounceTimer' = FALSE
  /\ UNCHANGED <<currentUserId, loading, loads, older, sends, server, events,
                 nextId, clock, hist>>
  /\ UNCHANGED <<pf, ty, listVars, mgrVars, otherUserId, nearby, isAnonymous>>

\* ------------------------------------------------------- read receipts
\* onScroll: the at-bottom flag is refreshed, the thread is marked read when
\* the view has just reached the bottom and no mark was made since the last
\* focus, and loadOlder() is called when the view is at the top
OnScroll(atBottom, atTop) ==
  /\ ~loading
  /\ rd.inputs < MaxViewInputs
  /\ LET mark == ~rd.isAtBottom /\ atBottom /\ ~rd.hasMarkedRead
     IN rd' = [rd EXCEPT !.isAtBottom = atBottom,
                         !.marked = IF mark THEN @ \cup markThreadRead ELSE @,
                         !.hasMarkedRead = IF mark THEN TRUE ELSE @,
                         !.inputs = @ + 1]
  /\ IF atTop /\ CanLoadOlder
     THEN /\ hist.older < MaxOlder
          /\ older.pc = "idle"
          /\ state' = messagesReducer(state, [type |-> "SET_FETCHING_MORE",
                                              isFetchingMore |-> TRUE])
          /\ older' = [NoOlder EXCEPT !.pc = "issued", !.other = otherUserId,
                                      !.before = state.messages[1].sentAt]
     ELSE UNCHANGED <<state, older>>
  /\ UNCHANGED <<currentUserId, loading, loads, eventQueue, debounceTimer, sends,
                 server, events, nextId, clock, hist>>
  /\ UNCHANGED <<pf, ty, listVars, mgrVars, proxVars>>

\* the screen is blurred and focused again: useFocusEffect resets
\* hasMarkedReadRef (cleanup and callback)
BlurFocus ==
  /\ ~loading
  /\ rd.inputs < MaxViewInputs
  /\ rd' = [rd EXCEPT !.hasMarkedRead = FALSE, !.inputs = @ + 1]
  /\ UNCHANGED <<storeVars, pf, ty, listVars, mgrVars, proxVars>>

\* ------------------------------------------------------ proximity checks
\* the proximity service evaluates the i-th call in flight
NearbyAnswer(i) ==
  /\ i \in 1..Len(checks)
  /\ checks[i] = "asked"
  /\ checks' = [checks EXCEPT ![i] = IF nearby THEN "near" ELSE "far"]
  /\ UNCHANGED <<storeVars, pf, rd, ty, listVars, mgrVars, otherUserId, nearby, isAnonymous, ph>>

\* mutant: the history is cleared when the identity is masked
ProximityResult_ClearsHistory(i) ==
  /\ i \in 1..Len(checks)
  /\ checks[i] # "asked"
  /\ isAnonymous' = (checks[i] = "far")
  /\ checks' = RemoveAt(checks, i)
  /\ state' = IF checks[i] = "far" THEN [state EXCEPT !.messages = <<>>] ELSE state
  /\ UNCHANGED <<currentUserId, loading, loads, older, eventQueue, debounceTimer,
                 sends, server, events, nextId, clock, hist>>
  /\ UNCHANGED <<pf, rd, ty, listVars, mgrVars, otherUserId, nearby, ph>>

\* checkAnonymity resumes with the answer: setIsAnonymous(!isNearby)
ProximityResult(i) ==
  /\ i \in 1..Len(checks)
  /\ checks[i] # "asked"
  /\ isAnonymous' = (checks[i] = "far")
  /\ checks' = RemoveAt(checks, i)
  /\ UNCHANGED <<storeVars, pf, rd, ty, listVars, mgrVars, otherUserId, nearby, ph>>

\* ------------------------------------------------------ RealtimeManager
\* channels the transport can hold at once
MaxChans == 3
\* TIMED_OUT / CHANNEL_ERROR statuses the transport reports in one run
MaxFail == 5
\* calls of unsubscribe() by the owner (foreground handler, effect cleanup)
MaxUnsub == 2

maxRetries == 4

RECURSIVE Pow2(_)
Pow2(n) == IF n = 0 THEN 1 ELSE 2 * Pow2(n - 1)

Min(a, b) == IF a < b THEN a ELSE b

calculateBackoff(retryCount) == Min(1000 * Pow2(retryCount), 16000)

NoChan == [kind |-> "none", st |-> "none", tracked |-> FALSE]

InitMgr ==
  /\ mgr = [channel |-> 0, isSubscribed |-> FALSE, retryCount |-> 0,
            retryTimeout |-> "null"]
  /\ chans = [c \in 1..MaxChans |-> NoChan]
  /\ timers = <<>>
  /\ opens = [owner |-> 0, retry |-> 0]
  /\ unsubs = {}
  /\ mh = [pc |-> "new", ownerUnsub |-> 0, fails |-> 0,
           failures |-> 0, attempts |-> 0, delays |-> <<>>]

Live(c) == chans[c].st \in {"joining", "joined", "errored"}

FreeChan == CHOOSE c \in 1..MaxChans : chans[c].kind = "none"
HasFreeChan == \E c \in 1..MaxChans : chans[c].kind = "none"

\* mutant: unsubscribe() removes every channel the manager has created, the
\* one of subscribeToLocationUpdates included
UnsubscribeSync_EveryChannel(m, ts, us) ==
  <<[m EXCEPT !.retryTimeout = "null", !.channel = 0, !.isSubscribed = FALSE],
    IF m.retryTimeout = "pending" THEN SubSeq(ts, 1, Len(ts) - 1) ELSE ts,
    us \cup {c \in 1..MaxChans : chans[c].kind # "none" /\ chans[c].st # "closing"}>>

\* mutant: this.channel is not reset before the await
UnsubscribeSync_KeepsChannel(m, ts, us) ==
  LET m1 == [m EXCEPT !.retryTimeout = "null"]
      ts1 == IF m.retryTimeout = "pending" THEN SubSeq(ts, 1, Len(ts) - 1) ELSE ts
  IN IF m1.channel = 0 THEN <<m1, ts1, us>>
     ELSE <<[m1 EXCEPT !.isSubscribed = FALSE], ts1, us \cup {m1.channel}>>

\* unsubscribe() up to its first await: the timer handle is cleared and the
\* fields are reset; the channel waits for untrack() before it is removed.
\* Gives <<mgr, timers, unsubs>>.
UnsubscribeSync(m, ts, us) ==
  LET m1 == [m EXCEPT !.retryTimeout = "null"]
      ts1 == IF m.retryTimeout = "pending" THEN SubSeq(ts, 1, Len(ts) - 1) ELSE ts
  IN IF m1.channel = 0 THEN <<m1, ts1, us>>
     ELSE <<[m1 EXCEPT !.channel = 0, !.isSubscribed = FALSE], ts1,
            us \cup {m1.channel}>>

\* subscribeToConversation up to await supabase.realtime.setAuth()
OpenBegin(m, ts, us) ==
  IF m.channel # 0 THEN UnsubscribeSync(m, ts, us) ELSE <<m, ts, us>>

\* setupChatRealtime: subscribeToConversation (suspends at setAuth), then
\* subscribeToLocationUpdates, which finds no channel and creates its own
SetupChatRealtime ==
  /\ mh.pc = "new"
  /\ LET r == OpenBegin(mgr, timers, unsubs)
         c == FreeChan
     IN /\ timers' = r[2]
        /\ unsubs' = r[3]
        /\ opens' = [opens EXCEPT !.owner = @ + 1]
        /\ IF r[1].channel = 0
           THEN /\ mgr' = [r[1] EXCEPT !.channel = c]
                /\ chans' = [chans EXCEPT ![c] =
                     [NoChan EXCEPT !.kind = "loc",
                        !.st = IF r[1].isSubscribed THEN "created" ELSE "joining"]]
           ELSE /\ mgr' = r[1]
                /\ chans' = chans
  /\ mh' = [mh EXCEPT !.pc = "open"]
  /\ UNCHANGED <<storeVars, pf, rd, ty, listVars, proxVars>>

\* setAuth() resolves: the channel is built, assigned and subscribed
OpenResume(src) ==
  /\ opens[src] > 0
  /\ HasFreeChan
  /\ LET c == FreeChan
     IN /\ mgr' = [mgr EXCEPT !.channel = c]
        /\ chans' = [chans EXCEPT ![c] =
             [NoChan EXCEPT !.kind = "conv", !.st = "joining"]]
  /\ opens' = [opens EXCEPT ![src] = @ - 1]
  /\ UNCHANGED <<timers, unsubs, mh, storeVars, pf, rd, ty, listVars, proxVars>>

\* mutant: the retryCount >= maxRetries guard is missing
attemptRetry_NoLimit(m, ts, h) ==
  LET rc == m.retryCount + 1
      backoff == calculateBackoff(rc)
  IN <<[m EXCEPT !.retryCount = rc, !.retryTimeout = "pending"],
       Append(ts, backoff),
       [h EXCEPT !.attempts = @ + 1, !.delays = Append(@, backoff)]>>

\* attemptRetry; gives <<mgr, timers, mh>>. this.retryTimeout is overwritten
\* without clearTimeout: a callback still pending under the old handle stays
\* pending and can no longer be cancelled. While this.retryTimeout is
\* "pending" the callback it holds is the last one of timers
attemptRetry(m, ts, h) ==
  IF m.retryCount >= maxRetries THEN <<m, ts, h>>
  ELSE LET rc == m.retryCount + 1
           backoff == calculateBackoff(rc)
       IN <<[m EXCEPT !.retryCount = rc, !.retryTimeout = "pending"],
            Append(ts, backoff),
            [h EXCEPT !.attempts = @ + 1, !.delays = Append(@, backoff)]>>

\* mutant: SUBSCRIBED does not reset retryCount
StatusSubscribed_NoReset(c) ==
  /\ chans[c].kind = "conv" /\ chans[c].st \in {"joining", "errored"}
  /\ mgr' = [mgr EXCEPT !.isSubscribed = TRUE]
  /\ chans' = [d \in 1..MaxChans |->
                 [chans[d] EXCEPT !.st = IF d = c THEN "joined" ELSE @,
                                  !.tracked = IF d = mgr.channel THEN TRUE ELSE @]]
  /\ mh' = [mh EXCEPT !.failures = 0, !.attempts = 0, !.delays = <<>>]
  /\ UNCHANGED <<timers, opens, unsubs, storeVars, pf, rd, ty, listVars, proxVars>>

\* status callback of a conversation channel: SUBSCRIBED
StatusSubscribed(c) ==
  /\ chans[c].kind = "conv" /\ chans[c].st \in {"joining", "errored"}
  /\ mgr' = [mgr EXCEPT !.isSubscribed = TRUE, !.retryCount = 0]
  /\ chans' = [d \in 1..MaxChans |->
                 [chans[d] EXCEPT !.st = IF d = c THEN "joined" ELSE @,
                                  !.tracked = IF d = mgr.channel THEN TRUE ELSE @]]
  /\ mh' = [mh EXCEPT !.failures = 0, !.attempts = 0, !.delays = <<>>]
  /\ UNCHANGED <<timers, opens, unsubs, storeVars, pf, rd, ty, listVars, proxVars>>

\* status callback of a conversation channel: TIMED_OUT or CHANNEL_ERROR
StatusFailed(c, status) ==
  /\ mh.fails < MaxFail
  /\ chans[c].kind = "conv"
  /\ \/ status = "TIMED_OUT" /\ chans[c].st \in {"joining", "errored"}
     \/ status = "CHANNEL_ERROR" /\ Live(c)
  /\ LET r == attemptRetry([mgr EXCEPT !.isSubscribed = FALSE], timers,
                           [mh EXCEPT !.fails = @ + 1, !.failures = @ + 1])
     IN /\ mgr' = r[1]
        /\ timers' = r[2]
        /\ mh' = r[3]
  /\ chans' = [chans EXCEPT ![c].st = "errored"]
  /\ UNCHANGED <<opens, unsubs, storeVars, pf, rd, ty, listVars, proxVars>>

\* status callback of a conversation channel: CLOSED (after removeChannel)
StatusClosed(c) ==
  /\ chans[c].kind = "conv" /\ chans[c].st = "closing"
  /\ mgr' = [mgr EXCEPT !.isSubscribed = FALSE]
  /\ chans' = [chans EXCEPT ![c] = NoChan]
  /\ UNCHANGED <<timers, opens, unsubs, mh, storeVars, pf, rd, ty, listVars, proxVars>>

\* status callback of the location channel: only SUBSCRIBED is handled
LocStatusSubscribed(c) ==
  /\ chans[c].kind = "loc" /\ chans[c].st = "joining"
  /\ mgr' = [mgr EXCEPT !.isSubscribed = TRUE]
  /\ chans' = [chans EXCEPT ![c].st = "joined"]
  /\ UNCHANGED <<timers, opens, unsubs, mh, storeVars, pf, rd, ty, listVars, proxVars>>

\* the setTimeout callback of attemptRetry: subscribeToConversation again.
\* A callback scheduled later runs first only when its delay is shorter; the
\* handle in this.retryTimeout is kept when its callback has run
RetryTimerFires(i) ==
  /\ i \in 1..Len(timers)
  /\ \A j \in 1..(i - 1) : timers[j] > timers[i]
  /\ LET cur == (i = Len(timers) /\ mgr.retryTimeout = "pending")
         r == OpenBegin([mgr EXCEPT !.retryTimeout = IF cur THEN "fired" ELSE @],
                        RemoveAt(timers, i), unsubs)
     IN /\ mgr' = r[1]
        /\ timers' = r[2]
        /\ unsubs' = r[3]
  /\ opens' = [opens EXCEPT !.retry = @ + 1]
  /\ UNCHANGED <<chans, mh, storeVars, pf, rd, ty, listVars, proxVars>>

\* unsubscribe() called by the owner
OwnerUnsubscribe ==
  /\ mh.pc = "open"
  /\ mh.ownerUnsub < MaxUnsub
  /\ LET r == UnsubscribeSync(mgr, timers, unsubs)
     IN /\ mgr' = r[1]
        /\ timers' = r[2]
        /\ unsubs' = r[3]
  /\ mh' = [mh EXCEPT !.ownerUnsub = @ + 1]
  /\ UNCHANGED <<chans, opens, storeVars, pf, rd, ty, listVars, proxVars>>

\* untrack() resolves (or throws): supabase.removeChannel(channel)
UnsubscribeResume(c) ==
  /\ c \in unsubs
  /\ unsubs' = unsubs \ {c}
  /\ chans' = [chans EXCEPT ![c] =
                 IF @.kind = "conv" /\ Live(c)
                 THEN [@ EXCEPT !.st = "closing", !.tracked = FALSE]
                 ELSE NoChan]
  /\ UNCHANGED <<mgr, timers, opens, mh, storeVars, pf, rd, ty, listVars, proxVars>>

NextMgr ==
  \/ SetupChatRealtime
  \/ \E src \in {"owner", "retry"} : OpenResume(src)
  \/ \E c \in 1..MaxChans : StatusSubscribed(c)
  \/ \E c \in 1..MaxChans, status \in {"TIMED_OUT", "CHANNEL_ERROR"} : StatusFailed(c, status)
  \/ \E c \in 1..MaxChans : StatusClosed(c)
  \/ \E c \in 1..MaxChans : LocStatusSubscribed(c)
  \/ \E i \in 1..MaxFail : RetryTimerFires(i)
  \/ OwnerUnsubscribe
  \/ \E c \in 1..MaxChans : UnsubscribeResume(c)

\* ------------------------------------------------------ typing events
\* the topic of a channel of the manager that `owner` holds for the
\* conversation with `other`: subscribeToConversation builds
\* chat:{currentUserId}, subscribeToLocationUpdates builds config.channelName,
\* which createConversationChannel sets to chat-{otherUserId}
Topic(kind, owner, other) ==
  IF kind = "conv" THEN [prefix |-> "chat:", id |-> owner]
  ELSE [prefix |-> "chat-", id |-> other]

\* broadcastTyping(userId, isTyping): nothing without a channel, else
\* this.channel.send({ type: 'broadcast', event: 'typing', payload })
broadcastTyping(air, kind, owner, other, isTyping) ==
  IF kind = "none" THEN air
  ELSE air \cup {[topic |-> Topic(kind, owner, other),
                  payload |-> [userId |-> owner, isTyping |-> isTyping]]}

\* handleTypingEvent(event) in the view of the conversation with `other`
handleTypingEvent(v, event, other) ==
  IF event.userId = other
  THEN [v EXCEPT !.isTyping = event.isTyping, !.timer = event.isTyping]
  ELSE v

\* the Composer reports a change of the user's typing state:
\* handleTypingChange, once the realtime effect has stored the manager
HandleTypingChange(isUserTyping) ==
  /\ mh.pc = "open"
  /\ ty.n < MaxTyping
  /\ ty' = [ty EXCEPT !.n = @ + 1,
                      !.air = broadcastTyping(@, IF mgr.channel = 0 THEN "none"
                                                 ELSE chans[mgr.channel].kind,
                                              "me", "A", isUserTyping)]
  /\ UNCHANGED <<storeVars, pf, rd, listVars, mgrVars, proxVars>>

\* the other participant opens the conversation: their manager first holds
\* the location channel, then the conversation channel
PeerOpens ==
  /\ ty.peer # "conv"
  /\ ty' = [ty EXCEPT !.peer = IF @ = "none" THEN "loc" ELSE "conv"]
  /\ UNCHANGED <<storeVars, pf, rd, listVars, mgrVars, proxVars>>

\* the other participant types: the same handleTypingChange in their view
PeerTypes(isUserTyping) ==
  /\ ty.peer # "none"
  /\ ty.n < MaxTyping
  /\ ty' = [ty EXCEPT !.n = @ + 1,
                      !.air = broadcastTyping(@, ty.peer, "A", "me", isUserTyping)]
  /\ UNCHANGED <<storeVars, pf, rd, listVars, mgrVars, proxVars>>

\* the transport delivers a broadcast to the clients other than the sender
\* that have joined a channel of its topic; the 'typing' listener of a
\* conversation channel calls onTypingChange
BroadcastDeliver(b) ==
  /\ b \in ty.air
  /\ LET mine == \E c \in 1..MaxChans :
                    /\ chans[c].kind = "conv" /\ chans[c].st = "joined"
                    /\ Topic("conv", "me", "A") = b.topic
                    /\ b.payload.userId # "me"
         theirs == /\ ty.peer = "conv"
                   /\ Topic("conv", "A", "me") = b.topic
                   /\ b.payload.userId # "A"
     IN ty' = [ty EXCEPT !.air = @ \ {b},
                         !.view["me"] = IF mine THEN handleTypingEvent(@, b.payload, "A")
                                        ELSE @,
                         !.view["A"] = IF theirs THEN handleTypingEvent(@, b.payload, "me")
                                       ELSE @]
  /\ UNCHANGED <<storeVars, pf, rd, listVars, mgrVars, proxVars>>

\* the conversation is opened on both sides while the participants type
NextTyping ==
  \/ SetupChatRealtime
  \/ OpenResume("owner")
  \/ \E c \in 1..MaxChans : StatusSubscribed(c)
  \/ \E c \in 1..MaxChans : LocStatusSubscribed(c)
  \/ \E b \in BOOLEAN : HandleTypingChange(b)
  \/ PeerOpens
  \/ \E b \in BOOLEAN : PeerTypes(b)
  \/ \E b \in ty.air : BroadcastDeliver(b)

\* ------------------------------------------------- thread list reducer
RECURSIVE InsertThreadStable(_, _)
\* place t behind every row that does not compare older (stable)
InsertThreadStable(sorted, t) ==
  IF sorted = <<>> THEN <<t>>
  ELSE IF sorted[Len(sorted)].last_message.created_at >= t.last_message.created_at
       THEN Append(sorted, t)
       ELSE Append(InsertThreadStable(SubSeq(sorted, 1, Len(sorted) - 1), t),
                   sorted[Len(sorted)])

RECURSIVE sortThreads(_)
\* newThreads.sort((a, b) => time(b.last_message.created_at) -
\*                           time(a.last_message.created_at))
sortThreads(list) ==
  IF list = <<>> THEN <<>>
  ELSE InsertThreadStable(sortThreads(SubSeq(list, 1, Len(list) - 1)), list[Len(list)])

\* findIndex on other_user_id: first index, 0 when there is none
FindThread(threads, otherId) ==
  IF \E i \in 1..Len(threads) : threads[i].other_user_id = otherId
  THEN CHOOSE i \in 1..Len(threads) :
         /\ threads[i].other_user_id = otherId
         /\ \A j \in 1..(i - 1) : threads[j].other_user_id # otherId
  ELSE 0

Partners(threads) == {threads[i].other_user_id : i \in 1..Len(threads)}

UpsertThread(threads, thread) ==
  LET existingIndex == FindThread(threads, thread.other_user_id)
  IN sortThreads(IF existingIndex > 0
                 THEN [threads EXCEPT ![existingIndex] = thread]
                 ELSE <<thread>> \o threads)

\* mutant: the list is not sorted again after the preview is replaced
UpdateThreadMessage_NoSort(threads, otherId, message) ==
  LET threadIndex == FindThread(threads, otherId)
  IN IF threadIndex = 0 THEN threads
     ELSE [threads EXCEPT ![threadIndex].last_message = message]

\* mutant: the row is rebuilt around the new preview and loses its mask
UpdateThreadMessage_DropsMask(threads, otherId, message) ==
  LET threadIndex == FindThread(threads, otherId)
  IN IF threadIndex = 0 THEN threads
     ELSE sortThreads([threads EXCEPT ![threadIndex].last_message = message,
                                      ![threadIndex].is_anonymous = FALSE])

UpdateThreadMessage(threads, otherId, message) ==
  LET threadIndex == FindThread(threads, otherId)
  IN IF threadIndex = 0 THEN threads
     ELSE sortThreads([threads EXCEPT ![threadIndex].last_message = message])

\* mutant: the fetched rows are merged without the filter on rows already present
MergeNewThreads_NoFilter(threads, fresh) ==
  IF fresh = <<>> THEN threads ELSE sortThreads(threads \o fresh)

MergeNewThreads(threads, fresh) ==
  LET existingIds == Partners(threads)
      newThreads == SelectSeq(fresh, LAMBDA t : t.other_user_id \notin existingIds)
  IN IF newThreads = <<>> THEN threads ELSE sortThreads(threads \o newThreads)

\* no sort
UpdateThreadAnonymity(threads, otherId, isAnon) ==
  LET threadIndex == FindThread(threads, otherId)
  IN IF threadIndex = 0 THEN threads
     ELSE [threads EXCEPT ![threadIndex].is_anonymous = isAnon]

threadsReducer(st, action) ==
  CASE action.type = "SET_LOADING" -> [st EXCEPT !.loading = action.loading]
    [] action.type = "SET_THREADS" ->
         [st EXCEPT !.threads = action.threads, !.loading = FALSE]
    [] action.type = "INITIAL_LOAD_COMPLETE" ->
         [st EXCEPT !.initialLoadComplete = TRUE, !.loading = FALSE]
    [] action.type = "UPSERT_THREAD" ->
         [st EXCEPT !.threads = UpsertThread(st.threads, action.thread)]
    [] action.type = "UPDATE_THREAD_MESSAGE" ->
         [st EXCEPT !.threads = UpdateThreadMessage(st.threads, action.otherUserId,
                                                    action.message)]
    [] action.type = "MERGE_NEW_THREADS" ->
         [st EXCEPT !.threads = MergeNewThreads(st.threads, action.threads)]
    [] action.type = "UPDATE_THREAD_ANONYMITY" ->
         [st EXCEPT !.threads = UpdateThreadAnonymity(st.threads, action.otherUserId,
                                                      action.isAnonymous)]
    [] OTHER -> st

\* -------------------------------------------------- thread list screen
\* inputs the thread list screen gets after it is mounted: message events,
\* location updates of partners, reloads (focus, foreground, header tap)
MaxListInputs == 2

\* the participants the user has a conversation with at the start, and one
\* who writes for the first time
Known == {"p1", "p2", "p3"}
Peers == Known \cup {"p9"}
\* the participants whose conversations get message events while the list is
\* shown (the row at the bottom of the list and the new participant), and the
\* one whose location changes
MsgPeers == {"p3", "p9"}
LocPeers == {"p3"}

NoMsg == [id |-> 0, created_at |-> -1, st |-> "none"]

\* the last message of each conversation when the screen is mounted
FirstLast(p) ==
  CASE p = "p1" -> [id |-> 1, created_at |-> 2, st |-> "none"]
    [] p = "p2" -> [id |-> 2, created_at |-> 1, st |-> "none"]
    [] p = "p3" -> [id |-> 3, created_at |-> 0, st |-> "none"]
    [] OTHER -> NoMsg

\* an earlier message of a conversation
EarlierMsg(p) == [id |-> 20, created_at |-> -1, st |-> "none"]

\* the row of a conversation as the service builds it: the partner's profile,
\* the last message, the masking flag from the partner's distance
ThreadRow(p, srv) ==
  [other_user_id |-> p,
   other_user |-> [id |-> p, display_name |-> p],
   last_message |-> srv.last[p],
   unread_count |-> 0,
   is_anonymous |-> (p \in srv.far)]

\* getUserMessageThreads(): one row per conversation, most recent first
getUserMessageThreads(srv) ==
  LET rows == {ThreadRow(p, srv) : p \in {q \in Peers : srv.last[q] # NoMsg}}
      RECURSIVE Ordered(_, _)
      Ordered(S, acc) ==
        IF S = {} THEN acc
        ELSE LET m == CHOOSE x \in S : \A y \in S :
                        \/ x.last_message.created_at > y.last_message.created_at
                        \/ x = y
             IN Ordered(S \ {m}, Append(acc, m))
  IN Ordered(rows, <<>>)

InitListScreen ==
  /\ tstate = [threads |-> <<>>, loading |-> TRUE, initialLoadComplete |-> FALSE]
  \* merged: the participants whose row a merge has added, with the number of
  \* rows the list had before (for the properties)
  /\ tl = [currentUserId |-> FALSE, capThreads |-> {}, eventQueue |-> <<>>,
           debounceTimer |-> FALSE, newConversationCheck |-> {}, timers |-> {},
           fetches |-> {}, loads |-> {}, nearbyCalls |-> {}, merged |-> {}]
  /\ tsrv = [last |-> [p \in Peers |-> FirstLast(p)], far |-> {}, n |-> 0]

InitList ==
  /\ InitListScreen
  /\ shown = "all"

\* mutant: every load shows the spinner
loadThreads_AlwaysSpinner(st, t, srv, showSpinner) ==
  <<threadsReducer(st, [type |-> "SET_LOADING", loading |-> TRUE]),
    [t EXCEPT !.loads = @ \cup {[n |-> srv.n, showSpinner |-> showSpinner,
                                 res |-> "pending", threads |-> <<>>]}]>>

\* loadThreads(showSpinner) up to its await
loadThreads(st, t, srv, showSpinner) ==
  <<IF showSpinner THEN threadsReducer(st, [type |-> "SET_LOADING", loading |-> TRUE])
    ELSE st,
    [t EXCEPT !.loads = @ \cup {[n |-> srv.n, showSpinner |-> showSpinner,
                                 res |-> "pending", threads |-> <<>>]}]>>

\* supabase.auth.getUser() resolves: setCurrentUserId. The effects that depend
\* on currentUserId run: handleMessageEvent is built over the state.threads of
\* this render and subscribed; the focus effect calls loadThreads(false)
ListGetUser ==
  /\ ~tl.currentUserId
  /\ LET r == loadThreads(tstate,
                          [tl EXCEPT !.currentUserId = TRUE,
                                     !.capThreads = Partners(tstate.threads)],
                          tsrv, FALSE)
     IN /\ tstate' = r[1]
        /\ tl' = r[2]
  /\ UNCHANGED <<tsrv, storeVars, pf, rd, ty, mgrVars, proxVars, shown>>

\* the screen gains focus again: useFocusEffect
FocusReload ==
  /\ tl.currentUserId
  /\ tsrv.n < MaxListInputs
  /\ LET r == loadThreads(tstate, tl, tsrv, FALSE)
     IN /\ tstate' = r[1]
        /\ tl' = r[2]
  /\ tsrv' = [tsrv EXCEPT !.n = @ + 1]
  /\ UNCHANGED <<storeVars, pf, rd, ty, mgrVars, proxVars, shown>>

\* AppState 'active'
ForegroundReload ==
  /\ tsrv.n < MaxListInputs
  /\ LET r == loadThreads(tstate, tl, tsrv, FALSE)
     IN /\ tstate' = r[1]
        /\ tl' = r[2]
  /\ tsrv' = [tsrv EXCEPT !.n = @ + 1]
  /\ UNCHANGED <<storeVars, pf, rd, ty, mgrVars, proxVars, shown>>

\* the user taps the header title: handleHeaderRefresh
HeaderRefresh ==
  /\ tsrv.n < MaxListInputs
  /\ LET r == loadThreads(tstate, tl, tsrv, TRUE)
     IN /\ tstate' = r[1]
        /\ tl' = r[2]
  /\ tsrv' = [tsrv EXCEPT !.n = @ + 1]
  /\ UNCHANGED <<storeVars, pf, rd, ty, mgrVars, proxVars, shown>>

\* the service answers a loadThreads call: the rows, an error, or it throws
LoadThreadsAnswer(l) ==
  /\ l \in tl.loads /\ l.res = "pending"
  /\ \E res \in {"ok", "error", "throw"} :
       tl' = [tl EXCEPT !.loads = (@ \ {l}) \cup
                {[l EXCEPT !.res = res,
                           !.threads = IF res = "ok" THEN getUserMessageThreads(tsrv)
                                       ELSE <<>>]}]
  /\ UNCHANGED <<tstate, tsrv, storeVars, pf, rd, ty, mgrVars, proxVars, shown>>

\* loadThreads resumes after its await
LoadThreadsApply(l) ==
  /\ l \in tl.loads /\ l.res # "pending"
  /\ tstate' =
       CASE l.res = "error" ->
              threadsReducer(tstate, [type |-> "SET_THREADS", threads |-> <<>>])
         [] l.res = "ok" ->
              LET s1 == threadsReducer(tstate, [type |-> "SET_THREADS",
                                                threads |-> l.threads])
              IN IF ~s1.initialLoadComplete
                 THEN threadsReducer(s1, [type |-> "INITIAL_LOAD_COMPLETE"])
                 ELSE s1
         [] OTHER ->
              IF l.showSpinner
              THEN threadsReducer(tstate, [type |-> "SET_LOADING", loading |-> FALSE])
              ELSE tstate
  /\ tl' = [tl EXCEPT !.loads = @ \ {l}]
  /\ UNCHANGED <<tsrv, storeVars, pf, rd, ty, mgrVars, proxVars, shown>>

\* queueEvent of the list screen (50 ms)
listQueueEvent(t, fn) ==
  [t EXCEPT !.eventQueue = Append(@, fn), !.debounceTimer = TRUE]

\* handleMessageEvent(payload)
handleMessageEvent(t, otherId, messageData) ==
  LET existingThread == otherId \in t.capThreads
  IN IF ~existingThread /\ otherId \notin t.newConversationCheck
     THEN [t EXCEPT !.newConversationCheck = @ \cup {otherId},
                    !.timers = @ \cup {otherId}]
     ELSE listQueueEvent(t, [type |-> "UPDATE_THREAD_MESSAGE",
                             otherUserId |-> otherId, message |-> messageData])

\* a message is inserted in the conversation with p; the INSERT event reaches
\* handleMessageEvent
ListMessageInsert(p) ==
  /\ tl.currentUserId
  /\ tsrv.n < MaxListInputs
  /\ LET m == [id |-> 10 + tsrv.n, created_at |-> 3 + tsrv.n, st |-> "none"]
     IN /\ tsrv' = [tsrv EXCEPT !.last[p] = m, !.n = @ + 1]
        /\ tl' = handleMessageEvent(tl, p, m)
  /\ UNCHANGED <<tstate, storeVars, pf, rd, ty, mgrVars, proxVars, shown>>

\* a message of the conversation with p is marked read; the UPDATE handler
\* queues the closure. latest: the message is the last one of the conversation
ListMessageUpdate(p, latest) ==
  /\ tl.currentUserId
  /\ tsrv.n < MaxListInputs
  /\ tsrv.last[p] # NoMsg
  /\ LET m == [(IF latest THEN tsrv.last[p] ELSE EarlierMsg(p)) EXCEPT !.st = "read"]
     IN /\ tsrv' = [tsrv EXCEPT !.last[p] = IF latest THEN m ELSE @, !.n = @ + 1]
        /\ tl' = listQueueEvent(tl, [type |-> "UPDATE_THREAD_MESSAGE",
                                     otherUserId |-> p, message |-> m])
  /\ UNCHANGED <<tstate, storeVars, pf, rd, ty, mgrVars, proxVars, shown>>

\* the 500 ms callback of handleMessageEvent runs and the service answers its
\* getUserMessageThreads call
NewConversationFetch(p) ==
  /\ p \in tl.timers
  /\ \E ok \in BOOLEAN :
       tl' = [tl EXCEPT !.timers = @ \ {p},
                        !.fetches = @ \cup
                           {[who |-> p, ok |-> ok,
                             threads |-> IF ok THEN getUserMessageThreads(tsrv)
                                         ELSE <<>>]}]
  /\ UNCHANGED <<tstate, tsrv, storeVars, pf, rd, ty, mgrVars, proxVars, shown>>

\* the callback resumes: MERGE_NEW_THREADS, newConversationCheckRef.delete
NewConversationMerge(f) ==
  /\ f \in tl.fetches
  /\ tstate' = IF f.ok
               THEN threadsReducer(tstate, [type |-> "MERGE_NEW_THREADS",
                                            threads |-> f.threads])
               ELSE tstate
  /\ tl' = [tl EXCEPT !.fetches = @ \ {f},
                      !.newConversationCheck = @ \ {f.who},
                      !.merged = IF f.ok /\ f.who \notin Partners(tstate.threads)
                                 THEN @ \cup {[who |-> f.who,
                                                 rows |-> Len(tstate.threads)]}
                                 ELSE @]
  /\ UNCHANGED <<tsrv, storeVars, pf, rd, ty, mgrVars, proxVars, shown>>

\* the locations row of a partner with a row in the list is updated:
\* handleLocationUpdate up to its await
ListLocationUpdate(p, isFar) ==
  /\ tl.currentUserId
  /\ tsrv.n < MaxListInputs
  /\ p \in Partners(tstate.threads)
  /\ tsrv' = [tsrv EXCEPT !.n = @ + 1,
                          !.far = IF isFar THEN @ \cup {p} ELSE @ \ {p}]
  /\ tl' = [tl EXCEPT !.nearbyCalls = @ \cup {[who |-> p, n |-> tsrv.n,
                                               res |-> "asked"]}]
  /\ UNCHANGED <<tstate, storeVars, pf, rd, ty, mgrVars, proxVars, shown>>

\* the proximity service evaluates a call
ListNearbyAnswer(c) ==
  /\ c \in tl.nearbyCalls /\ c.res = "asked"
  /\ tl' = [tl EXCEPT !.nearbyCalls = (@ \ {c}) \cup
              {[c EXCEPT !.res = IF c.who \in tsrv.far THEN "far" ELSE "near"]}]
  /\ UNCHANGED <<tstate, tsrv, storeVars, pf, rd, ty, mgrVars, proxVars, shown>>

\* handleLocationUpdate resumes: queueEvent(UPDATE_THREAD_ANONYMITY)
ListNearbyResult(c) ==
  /\ c \in tl.nearbyCalls /\ c.res # "asked"
  /\ tl' = listQueueEvent([tl EXCEPT !.nearbyCalls = @ \ {c}],
                          [type |-> "UPDATE_THREAD_ANONYMITY", otherUserId |-> c.who,
                           isAnonymous |-> (c.res = "far")])
  /\ UNCHANGED <<tstate, tsrv, storeVars, pf, rd, ty, mgrVars, proxVars, shown>>

RECURSIVE RunListClosures(_, _)
\* events.forEach((fn) => fn())
RunListClosures(st, q) ==
  IF q = <<>> THEN st
  ELSE RunListClosures(threadsReducer(st, Head(q)), Tail(q))

\* the 50 ms timer fires: processBatchedEvents of the list screen
ListFlush ==
  /\ tl.debounceTimer
  /\ tstate' = RunListClosures(tstate, tl.eventQueue)
  /\ tl' = [tl EXCEPT !.eventQueue = <<>>, !.debounceTimer = FALSE]
  /\ UNCHANGED <<tsrv, storeVars, pf, rd, ty, mgrVars, proxVars, shown>>

NextList ==
  \/ ListGetUser
  \/ FocusReload
  \/ ForegroundReload
  \/ HeaderRefresh
  \/ \E l \in tl.loads : LoadThreadsAnswer(l)
  \/ \E l \in tl.loads : LoadThreadsApply(l)
  \/ \E p \in MsgPeers : ListMessageInsert(p)
  \/ \E p \in MsgPeers, latest \in BOOLEAN : ListMessageUpdate(p, latest)
  \/ \E p \in MsgPeers : NewConversationFetch(p)
  \/ \E f \in tl.fetches : NewConversationMerge(f)
  \/ \E p \in LocPeers, isFar \in BOOLEAN : ListLocationUpdate(p, isFar)
  \/ \E c \in tl.nearbyCalls : ListNearbyAnswer(c)
  \/ \E c \in tl.nearbyCalls : ListNearbyResult(c)
  \/ ListFlush

\* ----------------------------------------- the reducer exercised alone
\* longest store drawn as an input
MaxLen == 2
\* ids, timestamps of the drawn messages
MaxPfId == 3
MaxPfTime == 2

PfMsgs == [id : 1..MaxPfId, text : {0}, sentAt : 0..MaxPfTime, fromMe : {TRUE},
           status : {"pending", "sent"}]

PfStores ==
  UNION {{st \in [1..n -> PfMsgs] :
            \A i, j \in 1..n : i # j => st[i].id # st[j].id} : n \in 0..MaxLen}

NoPf == [store |-> <<>>, msg |-> 0, n |-> 0, cur |-> <<>>, first |-> <<>>]

InitUpsert ==
  /\ InitStore
  /\ InitMgr
  /\ InitProx
  /\ InitList
  /\ \E st \in PfStores, m \in PfMsgs :
       pf = [store |-> st, msg |-> m, n |-> 0, cur |-> st, first |-> <<>>]

\* one insert event applied to the store: dispatch UPSERT_MESSAGE
ApplyInsert ==
  /\ pf.n < 2
  /\ LET nxt == messagesReducer([messages |-> pf.cur, hasMore |-> TRUE,
                                 isFetchingMore |-> FALSE],
                                [type |-> "UPSERT_MESSAGE", message |-> pf.msg]).messages
     IN pf' = [pf EXCEPT !.n = @ + 1, !.cur = nxt,
                         !.first = IF pf.n = 0 THEN nxt ELSE @]
  /\ UNCHANGED <<storeVars, rd, ty, listVars, mgrVars, proxVars>>

NextUpsert == ApplyInsert

\* upserts applied in a row to the empty store
MaxUpserts == 3

InitUpsertSeq ==
  /\ InitStore
  /\ InitMgr
  /\ InitProx
  /\ InitList
  /\ pf = [cur |-> <<>>, n |-> 0, used |-> {}, msg |-> 0]

\* dispatch({ type: 'UPSERT_MESSAGE', message }) with a message whose sentAt
\* no earlier upsert had
ApplyUpsert ==
  /\ pf.n < MaxUpserts
  /\ \E m \in PfMsgs :
       /\ m.sentAt \notin pf.used
       /\ pf' = [cur |-> messagesReducer([messages |-> pf.cur, hasMore |-> TRUE,
                                          isFetchingMore |-> FALSE],
                                         [type |-> "UPSERT_MESSAGE",
                                          message |-> m]).messages,
                 n |-> pf.n + 1, used |-> pf.used \cup {m.sentAt}, msg |-> m]
  /\ UNCHANGED <<storeVars, rd, ty, listVars, mgrVars, proxVars>>

NextUpsertSeq == ApplyUpsert

\* ids of the messages of a drawn older page
MaxPageId == 4

PfPageMsgs == [id : 1..MaxPageId, text : {0}, sentAt : 0..MaxPfTime, fromMe : {FALSE},
               status : {"sent"}]

\* pages of the persistence service: at most BATCH_SIZE rows with distinct ids,
\* sorted ascending by loadOlder before the dispatch
PfPages ==
  UNION {{pg \in [1..n -> PfPageMsgs] :
            /\ \A i, j \in 1..n : i # j => pg[i].id # pg[j].id
            /\ sortMessagesAsc(pg) = pg} : n \in 0..BatchSize}

InitPrepend ==
  /\ InitStore
  /\ InitMgr
  /\ InitProx
  /\ InitList
  /\ \E st \in PfStores, pg \in PfPages :
       pf = [store |-> sortMessagesAsc(st), page |-> pg, n |-> 0,
             cur |-> sortMessagesAsc(st)]

\* loadOlder's dispatch of PREPEND_MESSAGES on the drawn store
ApplyPrepend ==
  /\ pf.n < 1
  /\ pf' = [pf EXCEPT !.n = @ + 1,
                      !.cur = messagesReducer(
                                [messages |-> pf.cur, hasMore |-> TRUE,
                                 isFetchingMore |-> TRUE],
                                [type |-> "PREPEND_MESSAGES", messages |-> pf.page,
                                 hasMore |-> (Len(pf.page) = BatchSize)]).messages]
  /\ UNCHANGED <<storeVars, rd, ty, listVars, mgrVars, proxVars>>

NextPrepend == ApplyPrepend

\* ------------------------------- the thread list reducer exercised alone
\* longest thread list drawn, longest fetched list merged, timestamps
MaxTlLen == 3
MaxTlFresh == 2
MaxTlTime == 2

TlMsgs == [id : {1}, created_at : 0..MaxTlTime, st : {"none"}]

TlRows == {[other_user_id |-> p, other_user |-> [id |-> p, display_name |-> p],
            last_message |-> m, unread_count |-> 0, is_anonymous |-> FALSE] :
             p \in Peers, m \in TlMsgs}

\* lists as the service delivers them: one row per conversation, most recent
\* first
TlLists(len) ==
  UNION {{l \in [1..n -> TlRows] :
            /\ \A i, j \in 1..n : i # j => l[i].other_user_id # l[j].other_user_id
            /\ sortThreads(l) = l} : n \in 0..len}

InitThreads ==
  /\ InitStore
  /\ InitMgr
  /\ InitProx
  /\ InitList
  /\ \E l \in TlLists(MaxTlLen) : pf = [store |-> l, cur |-> l, n |-> 0, kind |-> "none"]

ApplyThread(action) ==
  /\ pf.n < 2
  /\ pf' = [pf EXCEPT !.n = @ + 1, !.kind = action.type,
                      !.cur = threadsReducer([threads |-> pf.cur, loading |-> FALSE,
                                              initialLoadComplete |-> TRUE],
                                             action).threads]
  /\ UNCHANGED <<storeVars, rd, ty, listVars, mgrVars, proxVars>>

\* dispatch({ type: 'UPSERT_THREAD', thread })
ApplyUpsertThread ==
  \E t \in TlRows : ApplyThread([type |-> "UPSERT_THREAD", thread |-> t])

\* dispatch({ type: 'UPDATE_THREAD_MESSAGE', otherUserId, message })
ApplyUpdateThreadMessage ==
  \E p \in Peers, m \in TlMsgs :
     ApplyThread([type |-> "UPDATE_THREAD_MESSAGE", otherUserId |-> p, message |-> m])

\* dispatch({ type: 'MERGE_NEW_THREADS', threads: freshThreads })
ApplyMergeNewThreads ==
  \E l \in TlLists(MaxTlFresh) :
     ApplyThread([type |-> "MERGE_NEW_THREADS", threads |-> l])

NextThreads ==
  \/ ApplyUpsertThread
  \/ ApplyUpdateThreadMessage
  \/ ApplyMergeNewThreads

\* ------------------------------------------------------- specification
Init == InitStore /\ InitMgr /\ InitProx /\ InitList /\ pf = NoPf

NextStore ==
  \/ Tick
  \/ \E r \in 1..3 : LoadChatGetUser(r)
  \/ \E r \in 1..3 : LoadChatFetch(r)
  \/ \E r \in 1..3 : LoadChatApply(r)
  \/ \E r \in 1..3 : LoadChatDone(r)
  \/ LoadOlder
  \/ OlderFetch
  \/ OlderApply
  \/ HandleSend
  \/ \E i \in 1..Len(state.messages) : HandleRetry(i)
  \/ \E s \in sends : ServerInsert(s)
  \/ \E s \in sends : SendResolved(s)
  \/ \E s \in sends : SendFailed(s)
  \/ OtherSends
  \/ \E row \in server : ServerStatus(row)
  \/ \E e \in events : RealtimeDeliver(e)
  \/ processBatchedEvents

\* history loads while the conversation in focus changes
NextFocus ==
  \/ \E r \in 1..3 : LoadChatGetUser(r)
  \/ \E r \in 1..3 : LoadChatFetch(r)
  \/ \E r \in 1..3 : LoadChatApply(r)
  \/ \E r \in 1..3 : LoadChatDone(r)
  \/ SwitchConversation
  \/ LoadOlder
  \/ OlderFetch
  \/ OlderApply

\* the loaded conversation: realtime events, location updates, proximity
\* checks, sends and retries
InitLoadedConversation ==
  /\ state = [messages |-> <<mapServerMessage(
                   [id |-> 2, text |-> 0, created_at |-> 0, sender |-> "me", st |-> "read"], TRUE),
                 mapServerMessage(
                   [id |-> 3, text |-> 0, created_at |-> 1, sender |-> "other", st |-> "none"], TRUE)>>,
              hasMore |-> TRUE, isFetchingMore |-> FALSE]
  /\ currentUserId = TRUE
  /\ loading = FALSE
  /\ loads = [r \in 1..3 |-> IF r = 3 THEN NoLoad ELSE [NoLoad EXCEPT !.pc = "done"]]
  /\ older = NoOlder
  /\ eventQueue = <<>>
  /\ debounceTimer = FALSE
  /\ sends = {}
  /\ server = History
  /\ events = {}
  /\ nextId = 4
  /\ clock = 1
  /\ hist = [sends |-> 0, retries |-> 0, other |-> 0, status |-> 0, older |-> 0,
             sentIds |-> {}, retried |-> {}]
  /\ rd = InitRead
  /\ ty = InitTyping
  /\ InitMgr
  /\ pf = NoPf
  /\ otherUserId = "A"
  /\ nearby = TRUE
  /\ isAnonymous = FALSE
  /\ checks = <<>>
  /\ ph = [NoLog EXCEPT !.on = TRUE]

InitLoaded ==
  /\ InitLoadedConversation
  /\ InitList

NextProx ==
  \/ HandleSend
  \/ \E i \in 1..Len(state.messages) : HandleRetry(i)
  \/ \E s \in sends : ServerInsert(s)
  \/ \E s \in sends : SendResolved(s)
  \/ \E s \in sends : SendFailed(s)
  \/ \E row \in server : ServerStatus(row)
  \/ \E e \in events : RealtimeDeliver(e)
  \/ \E b \in BOOLEAN : LocationUpdate(b)
  \/ processBatchedEvents
  \/ \E i \in 1..MaxChecks : NearbyAnswer(i)
  \/ \E i \in 1..MaxChecks : ProximityResult(i)

\* the loaded conversation: older pages while messages arrive
NextOlder ==
  \/ Tick
  \/ LoadOlder
  \/ OlderFetch
  \/ OlderApply
  \/ OtherSends
  \/ \E e \in events : RealtimeDeliver(e)
  \/ processBatchedEvents

\* the loaded conversation on the user's private channel, which carries the
\* events of every conversation of the user
NextChannel ==
  \/ HandleSend
  \/ \E s \in sends : ServerInsert(s)
  \/ \E s \in sends : SendResolved(s)
  \/ OtherSends
  \/ \E row \in server : ServerStatus(row)
  \/ \E type \in {"INSERT", "UPDATE"},
        msg \in {Payload(e.row) : e \in events} \cup ForeignPayloads :
        ChannelEvent(type, msg)
  \/ processBatchedEvents

\* the loaded conversation: messages of the other participant arrive while
\* the user scrolls
NextRead ==
  \/ Tick
  \/ OtherSends
  \/ \E e \in events : RealtimeDeliver(e)
  \/ processBatchedEvents
  \/ \E atBottom, atTop \in BOOLEAN : OnScroll(atBottom, atTop)
  \/ BlurFocus
  \/ OlderFetch
  \/ OlderApply

\* a run follows one of the two screens: the loaded conversation or the
\* thread list (they share no state)
InitScreens ==
  /\ InitLoadedConversation
  /\ InitListScreen
  /\ shown \in {"conversation", "list"}

NextScreens ==
  \/ shown = "conversation" /\ NextProx
  \/ shown = "list" /\ NextList

vars == <<storeVars, pf, rd, ty, mgrVars, proxVars, listVars>>

SpecOlder == InitLoaded /\ [][NextOlder]_vars

SpecChannel == InitLoaded /\ [][NextChannel]_vars

SpecRead == InitLoaded /\ [][NextRead]_vars

SpecTyping == Init /\ [][NextTyping]_vars

SpecProx == InitLoaded /\ [][NextProx]_vars

SpecFocus == Init /\ [][NextFocus]_vars

SpecStore == Init /\ [][NextStore]_vars

SpecUpsert == InitUpsert /\ [][NextUpsert]_vars

SpecPrepend == InitPrepend /\ [][NextPrepend]_vars

SpecUpsertSeq == InitUpsertSeq /\ [][NextUpsertSeq]_vars

SpecMgr == Init /\ [][NextMgr]_vars

SpecList == Init /\ [][NextList]_vars

\* the thread list where every call in flight is answered and every promise
\* resumes: getUser resolves, the service answers a load (with rows, an error
\* or an exception), loadThreads resumes, the timers fire. Inputs of the user
\* and the environment may or may not come
ListFairness ==
  /\ WF_vars(ListGetUser)
  /\ WF_vars(\E l \in tl.loads : LoadThreadsAnswer(l))
  /\ WF_vars(\E l \in tl.loads : LoadThreadsApply(l))
  /\ WF_vars(\E p \in MsgPeers : NewConversationFetch(p))
  /\ WF_vars(\E f \in tl.fetches : NewConversationMerge(f))
  /\ WF_vars(\E c \in tl.nearbyCalls : ListNearbyAnswer(c))
  /\ WF_vars(\E c \in tl.nearbyCalls : ListNearbyResult(c))
  /\ WF_vars(ListFlush)

SpecListLive == Init /\ [][NextList]_vars /\ ListFairness

SpecThreads == InitThreads /\ [][NextThreads]_vars

SpecScreens == InitScreens /\ [][NextScreens]_vars

\* ------------------------------------------------------------ properties
Count(msgs, id) == Cardinality({i \in 1..Len(msgs) : msgs[i].id = id})

Sorted(msgs) == \A i \in 1..(Len(msgs) - 1) : msgs[i].sentAt <= msgs[i + 1].sentAt

Entries(msgs, text) == {i \in 1..Len(msgs) : msgs[i].text = text}

\* C1: the store holds exactly one entry with the client-assigned id of every
\* send at all times, whatever the order of direct response and broadcast echo
C1_ExactlyOneEntryPerSend ==
  \A id \in hist.sentIds : Count(state.messages, id) = 1

\* C2: applying the same insert event twice gives the same store as applying
\* it once, and that store holds exactly one entry with the message's id
C2_UpsertIdempotent ==
  pf.n = 2 => /\ pf.cur = pf.first
              /\ Count(pf.cur, pf.msg.id) = 1

\* the second insert has been applied to a store that already held the id
\* with other contents before the first one
C2_Witness ==
  /\ pf.n = 2
  /\ \E i \in 1..Len(pf.store) : pf.store[i].id = pf.msg.id /\ pf.store[i] # pf.msg
  /\ Len(pf.store) = 2

\* C3: an entry is pending only while its network submission is in flight; once
\* the submission has completed the entry is sent, delivered, read or failed
C3_PendingOnlyWhileSubmitting ==
  \A i \in 1..Len(state.messages) :
     state.messages[i].status = "pending" =>
        \E s \in sends : s.entry = state.messages[i].id

\* C4: when a retry's submission succeeds, the store holds exactly one entry
\* for the retried message and its status is sent
C4_RetryReconciled ==
  [][\A s \in sends :
       (s.op = "retry" /\ s.stage = "persisted" /\ sends' = sends \ {s}) =>
          /\ Cardinality(Entries(state'.messages, s.text)) = 1
          /\ \A i \in Entries(state'.messages, s.text) :
                state'.messages[i].status = "sent"]_vars

\* C5: the messages of the store are in ascending createdAt order in every
\* reachable state
C5_StoreSorted == Sorted(state.messages)

\* C6: no two entries of the store have the same id
C6_UniqueIds ==
  \A i, j \in 1..Len(state.messages) :
     i # j => state.messages[i].id # state.messages[j].id

\* an older page was merged, and the entry of a send was replaced by its echo
C6_Witness ==
  /\ Len(state.messages) >= 4
  /\ hist.older > 0
  /\ \E i \in 1..Len(state.messages) :
       state.messages[i].id \in hist.sentIds /\ state.messages[i].status = "sent"

\* C7: once a message id is in the store it is in the store in every later state
C7_NoDeletion ==
  [][Ids(state.messages) \subseteq Ids(state'.messages)]_vars
\* C8: the manager holds at most one live transport subscription at any time,
\* so a realtime event reaches the handlers at most once
C8_AtMostOneSubscription ==
  /\ Cardinality({c \in 1..MaxChans : Live(c)}) <= 1
  /\ Cardinality({c \in 1..MaxChans : chans[c].kind = "conv" /\ chans[c].st = "joined"}) <= 1

\* C9: once the owner has called unsubscribe(), no reconnect creates a
\* subscription
C9_UnsubscribeCancelsRetries ==
  [][~(mh.ownerUnsub > 0 /\ opens'.retry < opens.retry)]_vars

\* C10: after k consecutive recoverable failures at most k reconnect attempts
\* have been made and never more than four, with non-decreasing delays of at
\* most 16s
C10_BackoffBound ==
  /\ mh.attempts <= mh.failures
  /\ mh.attempts <= 4
  /\ \A i \in 1..Len(mh.delays) :
       /\ mh.delays[i] <= 16000
       /\ i > 1 => mh.delays[i - 1] <= mh.delays[i]

\* a fifth consecutive failure has been reported and no fifth attempt made
C10_Witness ==
  /\ mh.failures = 5
  /\ mh.attempts = 4
  /\ Len(mh.delays) = 4

\* C11: the delay before the n-th consecutive reconnect attempt (n = 1..4) is
\* 1s, 2s, 4s, 8s
C11_DelaysFromOneSecond ==
  \A n \in 1..Len(mh.delays) : mh.delays[n] = 1000 * Pow2(n - 1)

\* C14: the result of a history fetch (initial load or older page) that
\* completes when its conversation is no longer the one in focus is discarded:
\* it changes neither the messages nor the hasMore / fetching flags
C14_StaleFetchDiscarded ==
  [][(\/ \E r \in 1..3 : /\ loads[r].pc = "apply" /\ loads'[r].pc = "nearby"
                          /\ loads[r].other # otherUserId
      \/ /\ older.pc = "fetched" /\ older'.pc = "idle"
         /\ older.other # otherUserId)
       => state' = state]_vars

\* the closures of a queue that upsert a message / that check the proximity
MsgClosures(q) == {i \in 1..Len(q) : q[i].fn.type # "LOCATION"}
LocClosures(q) == {i \in 1..Len(q) : q[i].fn.type = "LOCATION"}

\* a step of processBatchedEvents
Flush == debounceTimer /\ ~debounceTimer'

\* C12: no closure is dropped by the coalescer: every closure queued is either
\* still queued or has run exactly once, and after a flush the effect of every
\* closure of the batch is in the state (the message is in the store, a
\* proximity check is in flight), however enqueues and timer fires interleave
C12_NoEventDropped ==
  /\ [](/\ \A i, j \in 1..Len(ph.ran) : i # j => ph.ran[i].n # ph.ran[j].n
        /\ {eventQueue[i].n : i \in 1..Len(eventQueue)}
             \cap {ph.ran[i].n : i \in 1..Len(ph.ran)} = {}
        /\ {eventQueue[i].n : i \in 1..Len(eventQueue)}
             \cup {ph.ran[i].n : i \in 1..Len(ph.ran)} = 1..ph.enq
        /\ Len(eventQueue) = Cardinality({eventQueue[i].n : i \in 1..Len(eventQueue)}))
  /\ [][Flush =>
          /\ eventQueue' = <<>>
          /\ \A i \in MsgClosures(eventQueue) :
                eventQueue[i].fn.row.id \in Ids(state'.messages)
          /\ Len(checks') = Len(checks) + Cardinality(LocClosures(eventQueue))]_vars

\* three closures have been queued and all have run, a message closure and a
\* location closure among them
C12_Witness ==
  /\ ph.enq = MaxEnq
  /\ eventQueue = <<>>
  /\ Len(ph.ran) = MaxEnq
  /\ MsgClosures(ph.ran) # {}
  /\ LocClosures(ph.ran) # {}

\* C13: closures run in the order they were queued, within a batch and from
\* batch to batch, so that of two events for one message the one that arrived
\* later decides the entry
C13_AppliedInArrivalOrder ==
  /\ [](\A i \in 1..(Len(ph.ran) - 1) : ph.ran[i].n < ph.ran[i + 1].n)
  /\ [][Flush =>
          \A i \in MsgClosures(eventQueue) :
             (\A j \in MsgClosures(eventQueue) :
                 j > i => eventQueue[j].fn.row.id # eventQueue[i].fn.row.id)
             => \E k \in 1..Len(state'.messages) :
                   state'.messages[k] = mapServerMessage(eventQueue[i].fn.row, TRUE)]_vars

\* the insert and a later status update of one message have run, in that order
C13_Witness ==
  \E i, j \in 1..Len(ph.ran) :
     /\ i < j
     /\ ph.ran[i].fn.type = "INSERT" /\ ph.ran[j].fn.type = "UPDATE"
     /\ ph.ran[i].fn.row.id = ph.ran[j].fn.row.id
     /\ \E k \in 1..Len(state.messages) :
          state.messages[k].id = ph.ran[j].fn.row.id /\ state.messages[k].status = "delivered"

\* C15: a proximity result that switches the conversation from Nearby to
\* Distant leaves the message store unchanged: same entries, order, content
C15_HistoryKeptWhenDistant ==
  [][(~isAnonymous /\ isAnonymous') => state' = state]_vars

\* the conversation has become Distant while the store holds the loaded
\* history and a message sent since
C15_Witness ==
  /\ isAnonymous
  /\ Len(state.messages) >= 3

\* C19: the conversation is Distant exactly when the last proximity answer
\* received said so, and while it is Distant no send is issued
C19_NoSendWhileDistant ==
  [][isAnonymous => \A s \in sends' \ sends : s.stage # "submitted"]_vars

\* every asynchronous step of the manager has finished
Quiescent ==
  /\ unsubs = {}
  /\ opens.owner = 0 /\ opens.retry = 0
  /\ timers = <<>>

\* C16: once the owner has released the manager (view blurred or torn down)
\* and its pending work is over, no transport channel opened by the manager
\* is still subscribed
C16_NoSubscriptionAfterTeardown ==
  (mh.ownerUnsub > 0 /\ Quiescent) => \A c \in 1..MaxChans : ~Live(c)

LocChans == {c \in 1..MaxChans : chans[c].kind = "loc"}

C18_RecheckOnReconnect ==
  [][(mh.attempts > 0 /\ mh'.attempts = 0)
       => \/ Len(checks') > Len(checks)
          \/ LocClosures(eventQueue') # LocClosures(eventQueue)]_vars

\* C20: prependOlder(page) yields a store whose ids are the union of the
\* page's ids and the store's ids, each exactly once, in ascending order; a
\* full page of messages not yet stored makes the store longer by the page
C20_PrependIsUnion ==
  pf.n = 1 =>
    /\ Ids(pf.cur) = Ids(pf.store) \cup Ids(pf.page)
    /\ \A id \in Ids(pf.cur) : Count(pf.cur, id) = 1
    /\ Sorted(pf.cur)
    /\ Ids(pf.store) \cap Ids(pf.page) = {} => Len(pf.cur) = Len(pf.store) + Len(pf.page)

\* a full page of messages not yet stored has been merged in front of a store
\* of as many messages
C20_Witness ==
  /\ pf.n = 1
  /\ Len(pf.page) = BatchSize
  /\ Len(pf.store) = BatchSize
  /\ Len(pf.cur) = 2 * BatchSize
  /\ pf.cur = pf.page \o pf.store

\* C21: when the submission of a sent message fails, the entry of that message
\* gets status failed and stays in the store as failed until the user retries
\* it, and a submission is only ever issued by a send or a retry of the user
C21_FailedStaysUntilRetry ==
  [][/\ \A s \in sends :
          (s.stage = "submitted" /\ sends' = sends \ {s}) =>
             \E k \in 1..Len(state'.messages) :
                state'.messages[k].id = s.entry /\ state'.messages[k].status = "failed"
     /\ \A i \in 1..Len(state.messages) :
          state.messages[i].status = "failed" =>
             \E k \in 1..Len(state'.messages) :
                /\ state'.messages[k].id = state.messages[i].id
                /\ \/ state'.messages[k].status = "failed"
                   \/ hist'.retries > hist.retries
     /\ \A s \in sends' \ sends :
          s.stage = "submitted" =>
             hist'.sends > hist.sends \/ hist'.retries > hist.retries]_vars

\* C22: a failed older-page fetch is non-fatal: the step that resumes from it
\* leaves the stored messages and hasMore as they were, clears isFetchingMore,
\* and loadOlder passes its guard again on the next scroll to the top
C22_OlderFetchErrorNonFatal ==
  [][(older.pc = "fetched" /\ older.error /\ older'.pc = "idle") =>
        /\ state'.messages = state.messages
        /\ state'.hasMore = state.hasMore
        /\ ~state'.isFetchingMore
        /\ CanLoadOlder']_vars

\* after a failed fetch the older page has been requested again and answered
C22_Witness ==
  /\ ph.olderFailed
  /\ hist.older = 1
  /\ older.pc = "fetched"
  /\ ~older.error

\* the row of a participant in a thread list
RowOfPartner(threads, p) == threads[FindThread(threads, p)]

\* a step of the list screen's processBatchedEvents
ListFlushStep == tl.debounceTimer /\ ~tl'.debounceTimer

\* C23: a message event for a participant who has a row in the thread list
\* schedules no refetch of the whole list, and when its closure is applied
\* only the preview of that row changes: the other rows and the other fields
\* of the row stay as they are
C23_MessageEventUpdatesOneRow ==
  [][/\ \A p \in Partners(tstate.threads) : p \notin tl'.timers \ tl.timers
     /\ ListFlushStep =>
          /\ Partners(tstate'.threads) = Partners(tstate.threads)
          /\ \A p \in Partners(tstate.threads) :
               LET old == RowOfPartner(tstate.threads, p)
                   new == RowOfPartner(tstate'.threads, p)
                   msgs == {i \in 1..Len(tl.eventQueue) :
                              /\ tl.eventQueue[i].type = "UPDATE_THREAD_MESSAGE"
                              /\ tl.eventQueue[i].otherUserId = p}
                   anon == {i \in 1..Len(tl.eventQueue) :
                              /\ tl.eventQueue[i].type = "UPDATE_THREAD_ANONYMITY"
                              /\ tl.eventQueue[i].otherUserId = p}
               IN /\ new.other_user = old.other_user
                  /\ new.unread_count = old.unread_count
                  /\ msgs = {} => new.last_message = old.last_message
                  /\ anon = {} => new.is_anonymous = old.is_anonymous]_vars

\* C24: when a message has arrived from a participant with no row, the merge
\* that follows leaves exactly one row for that participant, carrying the
\* profile data, keeps every row already present as it is and adds no second
\* row for any participant; a list of 3 rows gets 4 rows by the message of p9
C24_MergeAddsNewRow ==
  [][\A f \in tl.fetches :
        (f.ok /\ tl'.fetches = tl.fetches \ {f}
              /\ f.who \notin Partners(tstate.threads)) =>
           /\ Cardinality({i \in 1..Len(tstate'.threads) :
                             tstate'.threads[i].other_user_id = f.who}) = 1
           /\ RowOfPartner(tstate'.threads, f.who).other_user
                = [id |-> f.who, display_name |-> f.who]
           /\ \A i \in 1..Len(tstate.threads) :
                \E k \in 1..Len(tstate'.threads) : tstate'.threads[k] = tstate.threads[i]
           /\ Cardinality(Partners(tstate'.threads)) = Len(tstate'.threads)
           /\ (Len(tstate.threads) = 3 /\ f.who = "p9") => Len(tstate'.threads) = 4]_vars

\* the message of p9 has arrived while the list had its 3 rows, and the merge
\* has added the row of p9
C24_Witness ==
  /\ [who |-> "p9", rows |-> 3] \in tl.merged
  /\ tsrv.n = 1
  /\ Len(tstate.threads) = 4
  /\ Partners(tstate.threads) = Peers
  /\ RowOfPartner(tstate.threads, "p9").last_message = tsrv.last["p9"]

ThreadsSorted(threads) ==
  \A i \in 1..(Len(threads) - 1) :
     threads[i].last_message.created_at >= threads[i + 1].last_message.created_at

\* C25: after every UPSERT_THREAD, UPDATE_THREAD_MESSAGE or MERGE_NEW_THREADS
\* the thread list has at most one row per participant and is ordered by the
\* time of the last message, newest first
C25_ThreadsUniqueAndSorted ==
  pf.n > 0 =>
    /\ Cardinality(Partners(pf.cur)) = Len(pf.cur)
    /\ ThreadsSorted(pf.cur)

\* a new preview has moved the bottom row of a list of three to the top
C25_Witness ==
  /\ pf.n = 1
  /\ pf.kind = "UPDATE_THREAD_MESSAGE"
  /\ Len(pf.store) = MaxTlLen
  /\ Len(pf.cur) = MaxTlLen
  /\ pf.cur[1].other_user_id = pf.store[MaxTlLen].other_user_id
  /\ pf.cur[1].last_message.created_at > pf.store[1].last_message.created_at

\* the branch of MessagesScreen that renders the blocking ActivityIndicator
SpinnerVisible == tstate.loading /\ ~tstate.initialLoadComplete

\* C26: the blocking loading indicator of the thread list is shown from the
\* mount until the first load, and after that only a refresh the user asks
\* for makes it visible: no message event, anonymity update, merge, focus
\* reload or foreground reload does
C26_SpinnerOnlyFirstLoadOrRefresh ==
  [][(~SpinnerVisible /\ SpinnerVisible') =>
        \E l \in tl'.loads \ tl.loads : l.showSpinner]_vars

\* the first load has ended without rows, a silent reload is in flight and the
\* indicator is not shown
C26_Witness ==
  /\ ~tstate.initialLoadComplete
  /\ ~tstate.loading
  /\ \E l \in tl.loads : l.n > 0 /\ ~l.showSpinner

\* C27: unsubscribe() is idempotent: in every state, a second call right after
\* a first one changes nothing more, a call on a manager that never subscribed
\* changes nothing, and a call hands a channel over for untrack / removeChannel
\* only when that channel has not been handed over before
C27_UnsubscribeIdempotent ==
  /\ [](LET r1 == UnsubscribeSync(mgr, timers, unsubs)
            r2 == UnsubscribeSync(r1[1], r1[2], r1[3])
        IN /\ r2 = r1
           /\ mh.pc = "new" => r1 = <<mgr, timers, unsubs>>)
  /\ [][(mh'.ownerUnsub > mh.ownerUnsub /\ mgr.channel # 0) =>
           /\ mgr.channel \notin unsubs
           /\ chans[mgr.channel].st \notin {"none", "closing"}
           /\ unsubs' = unsubs \cup {mgr.channel}]_vars

\* the owner has called unsubscribe() a second time while the channel of the
\* first call is still being removed, after a failure had scheduled a retry
C27_Witness ==
  /\ mh.ownerUnsub = 2
  /\ mh.fails > 0
  /\ unsubs # {}
  /\ mgr.channel = 0
  /\ mgr.retryTimeout = "null"

\* C28: when a conversation channel reports SUBSCRIBED retryCount becomes
\* zero, and every failure reported while fewer than four attempts have been
\* made since then schedules a reconnect attempt: a series of failures after a
\* successful subscription gets the budget of four attempts again
C28_RetryCountResetOnSubscribed ==
  /\ [][\A c \in 1..MaxChans :
          (chans[c].kind = "conv" /\ chans[c].st # "joined" /\ chans'[c].st = "joined")
             => mgr'.retryCount = 0]_vars
  /\ [][(mh'.fails > mh.fails /\ mh.attempts < maxRetries)
          => /\ mh'.attempts = mh.attempts + 1
             /\ Len(timers') = Len(timers) + 1]_vars
  /\ [](mgr.retryCount = mh.attempts)

\* one failure and its reconnect, a successful subscription, then four more
\* failures, each of which has scheduled an attempt
C28_Witness ==
  /\ mh.fails = 5
  /\ mh.failures = 4
  /\ mh.attempts = 4
  /\ mgr.retryCount = 4

\* C29: after any sequence of upserts of messages with pairwise distinct
\* createdAt values, starting from the empty store, the store is in ascending
\* createdAt order
C29_UpsertsKeepStoreSorted ==
  /\ Sorted(pf.cur)
  /\ \A i \in 1..(Len(pf.cur) - 1) : pf.cur[i].sentAt < pf.cur[i + 1].sentAt

\* three messages have been upserted, the last one being the earliest: it is
\* the first entry of the store
C29_Witness ==
  /\ pf.n = MaxUpserts
  /\ Len(pf.cur) = MaxUpserts
  /\ pf.cur[1] = pf.msg

\* the closures of the list's queue that set the mask of the row of p
AnonClosures(q, p) ==
  {i \in 1..Len(q) : q[i].type = "UPDATE_THREAD_ANONYMITY" /\ q[i].otherUserId = p}

\* C30: an anonymity flag changes only as the result of a proximity check:
\* isAnonymous of the conversation changes only when checkAnonymity resumes
\* with an answer, and is_anonymous of a thread row changes only when a
\* closure built from an isUserNearby answer is applied. No insert, status
\* update, send, retry, preview update or merge changes either (a reload of
\* the list installs the rows of the service and is not a message event)
C30_AnonymityOnlyByProximity ==
  [][/\ isAnonymous' # isAnonymous => Len(checks') < Len(checks)
     /\ tl'.loads = tl.loads =>
          \A p \in Partners(tstate.threads) \cap Partners(tstate'.threads) :
             RowOfPartner(tstate'.threads, p).is_anonymous
               # RowOfPartner(tstate.threads, p).is_anonymous
             => ListFlushStep /\ AnonClosures(tl.eventQueue, p) # {}]_vars

\* the row of p3 has been masked after a proximity check, and a status update
\* of its last message has since replaced its preview: the mask is kept
C30_Witness ==
  /\ shown = "list"
  /\ tl.eventQueue = <<>>
  /\ "p3" \in Partners(tstate.threads)
  /\ RowOfPartner(tstate.threads, "p3").is_anonymous
  /\ RowOfPartner(tstate.threads, "p3").last_message.st = "read"

\* the position of a status in the life of a delivered message (0: not yet
\* accepted by the server, or failed)
StatusRank(status) ==
  CASE status = "sent" -> 1
    [] status = "delivered" -> 2
    [] status = "read" -> 3
    [] OTHER -> 0

\* C31: the status of an entry never moves backwards: an entry that is sent,
\* delivered or read is never pending or failed in a later state and never has
\* an earlier status of the three, whatever the order of direct responses,
\* broadcast echoes and status updates
C31_StatusNeverRegresses ==
  [][\A i \in 1..Len(state.messages) : \A k \in 1..Len(state'.messages) :
        state'.messages[k].id = state.messages[i].id =>
           StatusRank(state'.messages[k].status) >= StatusRank(state.messages[i].status)]_vars

\* isActive(): return this.isSubscribed
isActive == mgr.isSubscribed

\* C32: isActive() is true only if the manager's current channel is a
\* conversation channel that is subscribed, and a status callback of a channel
\* that is not the current one, or of the location subscription, does not
\* change what isActive() reports
C32_IsActiveMeansSubscribed ==
  /\ [](isActive => /\ mgr.channel # 0
                    /\ chans[mgr.channel].kind = "conv"
                    /\ chans[mgr.channel].st = "joined")
  /\ [][\A c \in 1..MaxChans :
          (chans'[c].st # chans[c].st /\ chans'[c].st \in {"joined", "none"}
             /\ (c # mgr.channel \/ chans[c].kind = "loc"))
          => isActive' = isActive]_vars

C34_LatestCheckWins ==
  (ph.locs > 0 /\ checks = <<>> /\ LocClosures(eventQueue) = {})
     => isAnonymous = ~nearby

\* C35: pagination terminates: when the server has no message older than the
\* oldest stored one, the older-page fetch that is answered leaves hasMore
\* false, so that loadOlder returns at its guard on every later scroll to the
\* top
C35_PaginationTerminates ==
  [][(/\ older.pc = "fetched" /\ ~older.error /\ older'.pc = "idle"
      /\ state.messages # <<>>
      /\ ~\E r \in server : r.created_at < state.messages[1].sentAt)
       => /\ ~state'.hasMore
          /\ ~CanLoadOlder']_vars

\* C36: the preview of a thread row is the most recent message of its
\* conversation seen so far: applying the queued closures never replaces a
\* row's preview by a message that is older than it, and never moves a row
\* below a row it was above unless that row got a more recent preview
C36_PreviewIsMostRecent ==
  [][ListFlushStep =>
       \A p \in Partners(tstate.threads) \cap Partners(tstate'.threads) :
          /\ RowOfPartner(tstate'.threads, p).last_message.created_at
               >= RowOfPartner(tstate.threads, p).last_message.created_at
          /\ \A q \in Partners(tstate.threads) \cap Partners(tstate'.threads) :
               (/\ FindThread(tstate.threads, p) < FindThread(tstate.threads, q)
                /\ FindThread(tstate'.threads, p) > FindThread(tstate'.threads, q))
               => RowOfPartner(tstate'.threads, q).last_message
                    # RowOfPartner(tstate.threads, q).last_message]_vars

\* C37: a silent reload of the thread list (on focus or on app foreground)
\* that fails, by an error result or an exception, leaves the rows shown as
\* they are
C37_FailedSilentReloadKeepsRows ==
  [][\A l \in tl.loads :
        (l.res \in {"error", "throw"} /\ ~l.showSpinner /\ tl'.loads = tl.loads \ {l})
          => tstate'.threads = tstate.threads]_vars

\* C38: every message received from the other participant is marked read once
\* the user is at the bottom of the conversation: at its arrival when the view
\* is at the bottom then, otherwise by the scroll that brings the view back to
\* the bottom. So whenever the view is at the bottom, every message whose
\* insert closure has run is covered by a markThreadRead call
C38_ReceivedMarkedReadAtBottom ==
  rd.isAtBottom => rd.received \subseteq rd.marked

\* C39: the blocking loading indicator shown for the first load of the thread
\* list eventually disappears, whether that load succeeds, returns an error or
\* throws
C39_FirstLoadSpinnerEnds == <>(~SpinnerVisible)

\* C40: when one participant types in an open conversation, the typing event
\* they broadcast on their conversation channel is received by the manager the
\* other participant holds for the same conversation: when the transport
\* delivers it while the other side's conversation channel is subscribed, the
\* other view shows the typing state of the event
C40_TypingReachesOtherView ==
  [][\A b \in ty.air :
       ty'.air = ty.air \ {b} =>
          /\ (/\ b.payload.userId = "me" /\ b.topic = Topic("conv", "me", "A")
              /\ ty.peer = "conv")
                => ty'.view["A"].isTyping = b.payload.isTyping
          /\ (/\ b.payload.userId = "A" /\ b.topic = Topic("conv", "A", "me")
              /\ \E c \in 1..MaxChans : chans[c].kind = "conv" /\ chans[c].st = "joined")
                => ty'.view["me"].isTyping = b.payload.isTyping]_vars
====
